---- MODULE Spec2Model ----
(***************************************************************************)
(* State machine of the ellidri IRC network state (src/src/state/mod.rs,   *)
(* src/src/state/ircv3.rs, src/src/channel.rs, src/src/auth.rs).           *)
(*                                                                         *)
(* Nicknames and channel names are sequences of bytes, so that the ASCII   *)
(* case fold is computed and not assumed.  Every other text (passwords,    *)
(* capability tokens, sub-commands) is an opaque string.                   *)
(***************************************************************************)
EXTENDS Integers, Sequences, FiniteSets, TLC

VARIABLES
    clients,        \* StateInner::clients : id -> Client (occupied slab entries)
    slab_len,       \* number of slab entries ever allocated (occupied or vacant)
    slab_free,      \* vacant slab keys, most recently freed first
    nicks,          \* StateInner::nicks : folded nick -> id
    channels,       \* StateInner::channels : folded name -> Channel
    config,         \* the mutable configuration fields of StateInner
    auth_provider,  \* StateInner::auth_provider
    next_queue,     \* number of outbound queues handed in so far
    sent,           \* queue -> lines enqueued on it by the last operation
    gone,           \* queues whose client has been removed from the state
    welcomed,       \* queue -> number of welcome suites enqueued (saturates at 2)
    cap_open,       \* queues whose CAP LS or CAP REQ was answered and not yet ended
    panicked,       \* TRUE once an operation indexed clients[] with a missing id
    mutex,          \* State: the task that holds the lock of the Mutex, if any
    pc,             \* task -> "idle", "waiting" (in lock().await) or "running"
    call            \* task -> the operation of State it has called

vars == <<clients, slab_len, slab_free, nicks, channels, config, auth_provider,
          next_queue, sent, gone, welcomed, cap_open, panicked, mutex, pc, call>>

\* the variables of the Mutex around StateInner and of its callers
lock_vars == <<mutex, pc, call>>

----------------------------------------------------------------------------
(* Bounds of the model *)

\* queues (connections) the environment hands in over a whole behaviour
MaxConns == 3

\* connections of the channel, SASL and exchange specifications
PairConns == 2

\* tasks that call one State concurrently
MaxTasks == 2

Tasks == 1 .. MaxTasks

\* connections of the registration specification
RegConns == 1

\* the count of welcome suites per queue stops here
MaxWelcomes == 2

----------------------------------------------------------------------------
(* Values *)

\* Option: None is the empty tuple, Some(x) the one-element tuple
None == <<>>

Some(x) == <<x>>

EmptyStr == <<>>

MAX_TAG_DATA_LENGTH == 4094

\* "a", "A", "b", "c", the nick "z" nobody takes and the invalid nickname "1"
NickLa == <<97>>
NickUa == <<65>>
NickLb == <<98>>
NickLc == <<99>>
NickUnused == <<122>>
NickBad == <<49>>

\* "abcdefghi", of the 9 bytes of the default NICKLEN, and "abcdefghij"
Nick9 == <<97, 98, 99, 100, 101, 102, 103, 104, 105>>
Nick10 == <<97, 98, 99, 100, 101, 102, 103, 104, 105, 106>>

\* "#x", "#X", "&y" and the invalid channel name "x"
ChanX == <<35, 120>>
ChanUX == <<35, 88>>
ChanY == <<38, 121>>
ChanBad == <<120>>

\* ASCII case fold: the key of a nick or channel name in the maps
u(s) == [i \in DOMAIN s |-> IF s[i] >= 65 /\ s[i] <= 90 THEN s[i] + 32 ELSE s[i]]

MapPut(f, k, v) == [x \in (DOMAIN f) \cup {k} |-> IF x = k THEN v ELSE f[x]]

MapRemove(f, k) == [x \in (DOMAIN f) \ {k} |-> f[x]]

EmptyMap == [x \in {} |-> None]

Queues == 0 .. (MaxConns - 1)

NoLines == [q \in Queues |-> <<>>]

\* One outbound line: command or numeric, prefix, first parameter
Line(command, prefix, param) == [command |-> command, prefix |-> prefix, param |-> param]

\* a line of the server itself: no client prefix
ServerLine(command, param) == Line(command, <<>>, param)

----------------------------------------------------------------------------
(* Configuration *)

SampleConfig ==
    [domain |-> "elli.dri", org_name |-> "org", org_location |-> "loc",
     org_mail |-> "mail", motd_file |-> "motd", password |-> None,
     default_chan_mode |-> <<43, 110, 116>>, opers |-> <<>>,
     awaylen |-> 300, channellen |-> 50, kicklen |-> 300, namelen |-> 64,
     nicklen |-> 9, topiclen |-> 300, userlen |-> 64, login_timeout |-> 60000]

PasswordConfig == [SampleConfig EXCEPT !.password = Some("pw")]

\* a configuration that differs from SampleConfig in every field
OtherConfig ==
    [domain |-> "other.net", org_name |-> "org2", org_location |-> "loc2",
     org_mail |-> "mail2", motd_file |-> "hello", password |-> Some("pw2"),
     default_chan_mode |-> <<43, 109>>, opers |-> <<<<"oper", "secret">>>>,
     awaylen |-> 100, channellen |-> 20, kicklen |-> 100, namelen |-> 30,
     nicklen |-> 5, topiclen |-> 100, userlen |-> 30, login_timeout |-> 30000]

\* SampleConfig without a MOTD
NoMotdConfig == [SampleConfig EXCEPT !.motd_file = ""]

\* fs::read_to_string on the files of the host: the file "motd" holds a text
\* and no other file can be read
read_to_string(path) == IF path = "motd" THEN Some("motd text") ELSE None

\* StateInner::new: the StateInner fields set from a config::State
StateOfConfig(cfg) ==
    [domain |-> cfg.domain, org_name |-> cfg.org_name,
     org_location |-> cfg.org_location, org_mail |-> cfg.org_mail,
     motd |-> read_to_string(cfg.motd_file), password |-> cfg.password,
     default_chan_mode |-> cfg.default_chan_mode, opers |-> cfg.opers,
     awaylen |-> cfg.awaylen, channellen |-> cfg.channellen,
     kicklen |-> cfg.kicklen, namelen |-> cfg.namelen, nicklen |-> cfg.nicklen,
     topiclen |-> cfg.topiclen, userlen |-> cfg.userlen,
     login_timeout |-> cfg.login_timeout]

\* StateInner::rehash: the fields it assigns (org_mail and nicklen are not)
RehashConfig(old, cfg) ==
    [old EXCEPT !.domain = cfg.domain, !.org_name = cfg.org_name,
                !.org_location = cfg.org_location,
                !.motd = IF cfg.motd_file = "" THEN None ELSE Some(cfg.motd_file),
                !.password = cfg.password,
                !.default_chan_mode = cfg.default_chan_mode,
                !.opers = cfg.opers, !.awaylen = cfg.awaylen,
                !.channellen = cfg.channellen, !.kicklen = cfg.kicklen,
                !.namelen = cfg.namelen, !.topiclen = cfg.topiclen,
                !.userlen = cfg.userlen, !.login_timeout = cfg.login_timeout]


----------------------------------------------------------------------------
(* Client record (registration gates, capabilities, SASL sub-state) *)

NewState ==
    [got_nick |-> FALSE, got_user |-> FALSE, got_pass |-> FALSE,
     cap_pending |-> FALSE, registered |-> FALSE]

\* Client::new: empty registration, no capability, the queue of the caller
NewClient(queue) ==
    [queue |-> queue, nick |-> EmptyStr, user |-> "", real |-> "",
     capabilities |-> {}, v302 |-> FALSE, state |-> NewState,
     auth_id |-> None, auth_buffer |-> <<>>, identity |-> None,
     away_message |-> None]

is_registered(client) == client.state.registered

\* The world a handler works on: the three maps, the lines sent directly to
\* queues so far, and whether an index into clients[] has failed
World(cl, ni, ch) ==
    [clients |-> cl, nicks |-> ni, channels |-> ch, out |-> NoLines, panic |-> FALSE]

\* Client::send: enqueue on the queue of the client
ClientSend(w, client, line) ==
    [w EXCEPT !.out[client.queue] = Append(@, line)]

\* StateInner::send: enqueue only if the id is in clients
Send(w, id, line) ==
    IF id \in DOMAIN w.clients THEN ClientSend(w, w.clients[id], line) ELSE w

\* ids noticed by a notification from `from`: the members of every channel
\* `from` is in, and `from`
Noticed(w, from) ==
    UNION { DOMAIN w.channels[k].members :
              k \in {c \in DOMAIN w.channels : from \in DOMAIN w.channels[c].members} }
      \cup {from}

\* a filter that lets every client through, whatever the capability
PassesFilterAny(client, cap) == TRUE

\* the caller-supplied filter: a required capability, or "" for |_, _| true
PassesFilter(client, cap) == cap = "" \/ cap \in client.capabilities

RECURSIVE SendAll(_, _, _)
SendAll(w, ids, line) ==
    IF ids = {} THEN w
    ELSE LET id == CHOOSE x \in ids : TRUE
         IN  SendAll(Send(w, id, line), ids \ {id}, line)

\* the line to the members of each channel in turn, without the set of ids
RECURSIVE SendPerChannel(_, _, _, _, _)
SendPerChannel(w, ks, from, line, cap) ==
    IF ks = {} THEN w
    ELSE LET k == CHOOSE x \in ks : TRUE
             targets == {id \in (DOMAIN w.channels[k].members) \ {from} :
                           id \in DOMAIN w.clients /\ PassesFilter(w.clients[id], cap)}
         IN  SendPerChannel(SendAll(w, targets, line), ks \ {k}, from, line, cap)

\* send_notification that notifies once per shared channel
send_notification_per_channel(w, from, line, cap) ==
    SendPerChannel(w, {k \in DOMAIN w.channels : from \in DOMAIN w.channels[k].members},
                   from, line, cap)

\* StateInner::send_notification; &self.clients[id] panics on a missing id
send_notification(w, from, line, cap) ==
    LET Deliver(others) ==
            IF others \ DOMAIN w.clients # {} THEN [w EXCEPT !.panic = TRUE]
            ELSE SendAll(w, {id \in others : PassesFilter(w.clients[id], cap)}, line)
    IN  Deliver(Noticed(w, from) \ {from})

\* retain that keeps the channels left without members
RetainChannelsKeepEmpty(chans, id) ==
    [k \in DOMAIN chans |-> [chans[k] EXCEPT !.members = MapRemove(@, id)]]

\* retain that drops the channels of a lone member but leaves the id in the rest
RetainChannelsKeepMember(chans, id) ==
    [k \in {c \in DOMAIN chans : (DOMAIN chans[c].members) \ {id} # {}} |-> chans[k]]

\* self.channels.retain: drop the id from every channel, drop empty channels
RetainChannels(chans, id) ==
    LET left(k) == [chans[k] EXCEPT !.members = MapRemove(@, id)]
        kept == {k \in DOMAIN chans : DOMAIN left(k).members # {}}
    IN  [k \in kept |-> left(k)]

\* the nick index left as it is
KeepNick(ni, client) == ni

\* the nick index emptied
RemoveEveryNick(ni, client) == EmptyMap

\* self.nicks.remove(u(client.nick()))
RemoveNick(ni, client) == MapRemove(ni, u(client.nick))

\* StateInner::remove_client; the client is already out of w.clients
remove_client(w, id, client, err, reason) ==
    [ClientSend(send_notification(w, id, Line("QUIT", client.nick, reason), ""),
                client, ServerLine("ERROR", err))
       EXCEPT !.channels = RetainChannels(@, id),
              !.nicks = RemoveNick(@, client)]

----------------------------------------------------------------------------
(* Name validation *)

\* is_valid_channel_name: non-empty, within max_len, '#' or '&' first, and no
\* space, comma, ctrl-G or colon
is_valid_channel_name(s, max_len) ==
    /\ s # <<>>
    /\ Len(s) <= max_len
    /\ (s[1] = 35 \/ s[1] = 38)
    /\ \A i \in DOMAIN s : s[i] # 32 /\ s[i] # 44 /\ s[i] # 7 /\ s[i] # 58

is_valid_nickname_char(c) ==
    \/ (48 <= c /\ c <= 57)
    \/ (97 <= c /\ c <= 122)
    \/ (65 <= c /\ c <= 90)
    \/ (91 <= c /\ c <= 96)
    \/ (123 <= c /\ c <= 125)

\* is_valid_nickname that refuses a nickname of exactly max_len bytes
is_valid_nickname_short(s, max_len) ==
    /\ s # <<>>
    /\ Len(s) < max_len
    /\ \A i \in DOMAIN s : is_valid_nickname_char(s[i])
    /\ s[1] # 45
    /\ ~(48 <= s[1] /\ s[1] <= 57)

\* is_valid_nickname
is_valid_nickname(s, max_len) ==
    /\ s # <<>>
    /\ Len(s) <= max_len
    /\ \A i \in DOMAIN s : is_valid_nickname_char(s[i])
    /\ s[1] # 45
    /\ ~(48 <= s[1] /\ s[1] <= 57)

----------------------------------------------------------------------------
(* Mode grammar (src/src/modes.rs) *)

Change(type, value, param) == [ok |-> TRUE, type |-> type, value |-> value, param |-> param]

ModeError(error, char) == [ok |-> FALSE, type |-> error, value |-> FALSE, param |-> char]

\* letters whose record takes the next parameter when there is one
TakesParam(c) == c \in {107, 108, 98, 101, 73, 111, 118}

\* ChannelQuery::next: the record of one mode letter, given the latched sign
\* and the parameters not yet consumed
ChannelQueryItem(value, c, params) ==
    LET has == params # <<>>
        p == IF has THEN Head(params) ELSE None
    IN  CASE c = 97 -> Change("Anonymous", value, None)
          [] c = 105 -> Change("InviteOnly", value, None)
          [] c = 109 -> Change("Moderated", value, None)
          [] c = 110 -> Change("NoPrivMsgFromOutside", value, None)
          [] c = 113 -> Change("Quiet", value, None)
          [] c = 112 -> Change("Private", value, None)
          [] c = 116 -> Change("TopicRestricted", value, None)
          [] c = 107 -> IF has THEN Change("Key", value, p)
                        ELSE ModeError("MissingModeParam", None)
          [] c = 108 -> Change("UserLimit", has, p)
          [] c = 98 -> IF has THEN Change("ChangeBan", value, p)
                       ELSE Change("GetBans", FALSE, None)
          [] c = 101 -> IF has THEN Change("ChangeException", value, p)
                        ELSE Change("GetExceptions", FALSE, None)
          [] c = 73 -> IF has THEN Change("ChangeInvitation", value, p)
                       ELSE Change("GetInvitations", FALSE, None)
          [] c = 111 -> IF has THEN Change("ChangeOperator", value, p)
                        ELSE ModeError("MissingModeParam", None)
          [] c = 118 -> IF has THEN Change("ChangeVoice", value, p)
                        ELSE ModeError("MissingModeParam", None)
          [] OTHER -> ModeError("UnknownMode", c)

\* a query that ends at the first error record
RECURSIVE ChannelQueryStopping(_, _, _)
ChannelQueryStopping(modes, value, params) ==
    IF modes = <<>> THEN <<>>
    ELSE IF Head(modes) = 43 THEN ChannelQueryStopping(Tail(modes), TRUE, params)
    ELSE IF Head(modes) = 45 THEN ChannelQueryStopping(Tail(modes), FALSE, params)
    ELSE IF ~ChannelQueryItem(value, Head(modes), params).ok
    THEN <<ChannelQueryItem(value, Head(modes), params)>>
    ELSE <<ChannelQueryItem(value, Head(modes), params)>>
           \o ChannelQueryStopping(Tail(modes), value,
                                   IF TakesParam(Head(modes)) /\ params # <<>>
                                   THEN Tail(params) ELSE params)

\* SimpleQuery::next driven to the end: '+' and '-' latch the sign, every
\* other byte yields one record
RECURSIVE ChannelQuery(_, _, _)
ChannelQuery(modes, value, params) ==
    IF modes = <<>> THEN <<>>
    ELSE IF Head(modes) = 43 THEN ChannelQuery(Tail(modes), TRUE, params)
    ELSE IF Head(modes) = 45 THEN ChannelQuery(Tail(modes), FALSE, params)
    ELSE <<ChannelQueryItem(value, Head(modes), params)>>
           \o ChannelQuery(Tail(modes), value,
                           IF TakesParam(Head(modes)) /\ params # <<>>
                           THEN Tail(params) ELSE params)

\* str::parse::<usize>: an optional '+', then one or more decimal digits
RECURSIVE DigitsValue(_, _)
DigitsValue(s, acc) ==
    IF s = <<>> THEN acc ELSE DigitsValue(Tail(s), acc * 10 + (Head(s) - 48))

ParseUsize(s) ==
    LET digits == IF s # <<>> /\ Head(s) = 43 THEN Tail(s) ELSE s
    IN  IF digits # <<>> /\ \A i \in DOMAIN digits : 48 <= digits[i] /\ digits[i] <= 57
        THEN Some(DigitsValue(digits, 0))
        ELSE None

----------------------------------------------------------------------------
(* Channel record (src/src/channel.rs) *)

MemberModes(creator, operator, voice) ==
    [creator |-> creator, operator |-> operator, voice |-> voice]

\* Channel::default
DefaultChannel ==
    [members |-> EmptyMap, topic |-> None, user_limit |-> None, key |-> None,
     ban_mask |-> {}, exception_mask |-> {}, invitation_mask |-> {},
     anonymous |-> FALSE, invite_only |-> FALSE, moderated |-> FALSE,
     no_privmsg_from_outside |-> FALSE, quiet |-> FALSE, secret |-> FALSE,
     reop |-> FALSE, topic_restricted |-> FALSE]

\* Ok(applied) that reports a change whatever happened
AppliedAlways(chan, applied) == [chan |-> chan, ok |-> TRUE, applied |-> TRUE, reply |-> ""]

\* Ok(applied) that never reports a change
AppliedNever(chan, applied) == [chan |-> chan, ok |-> TRUE, applied |-> FALSE, reply |-> ""]

Applied(chan, applied) == [chan |-> chan, ok |-> TRUE, applied |-> applied, reply |-> ""]

Refused(chan, reply) == [chan |-> chan, ok |-> FALSE, applied |-> FALSE, reply |-> reply]

\* the member whose nick is param, found by iterating members
MembersNamed(chan, nick_of, param) == {m \in DOMAIN chan.members : nick_of[m] = param}

\* Channel::apply_mode_change; nick_of maps member ids to nicks
apply_mode_change(chan, change, nick_of) ==
    LET t == change.type
        value == change.value
        param == change.param
    IN  CASE t = "Anonymous" ->
               Applied([chan EXCEPT !.anonymous = value], chan.anonymous # value)
          [] t = "InviteOnly" ->
               Applied([chan EXCEPT !.invite_only = value], chan.invite_only # value)
          [] t = "Moderated" ->
               Applied([chan EXCEPT !.moderated = value], chan.moderated # value)
          [] t = "NoPrivMsgFromOutside" ->
               Applied([chan EXCEPT !.no_privmsg_from_outside = value],
                       chan.no_privmsg_from_outside # value)
          [] t = "Quiet" ->
               Applied([chan EXCEPT !.quiet = value], chan.quiet # value)
          [] t = "Secret" ->
               Applied([chan EXCEPT !.secret = value], chan.secret # value)
          [] t = "TopicRestricted" ->
               Applied([chan EXCEPT !.topic_restricted = value],
                       chan.topic_restricted # value)
          [] t = "Key" ->
               IF value
               THEN IF chan.key # None THEN Refused(chan, "ERR_KEYSET")
                    ELSE Applied([chan EXCEPT !.key = Some(param)], TRUE)
               ELSE IF chan.key # None /\ param = chan.key[1]
                    THEN Applied([chan EXCEPT !.key = None], TRUE)
                    ELSE Applied(chan, FALSE)
          [] t = "UserLimit" /\ value ->
               IF ParseUsize(param) # None
               THEN Applied([chan EXCEPT !.user_limit = ParseUsize(param)],
                            chan.user_limit = None \/ chan.user_limit # ParseUsize(param))
               ELSE Applied(chan, FALSE)
          [] t = "UserLimit" /\ ~value ->
               Applied([chan EXCEPT !.user_limit = None], chan.user_limit # None)
          [] t = "ChangeBan" ->
               IF value
               THEN Applied([chan EXCEPT !.ban_mask = @ \cup {param}],
                            param \notin chan.ban_mask)
               ELSE Applied([chan EXCEPT !.ban_mask = @ \ {param}],
                            param \in chan.ban_mask)
          [] t = "ChangeException" ->
               IF value
               THEN Applied([chan EXCEPT !.exception_mask = @ \cup {param}],
                            param \notin chan.exception_mask)
               ELSE Applied([chan EXCEPT !.exception_mask = @ \ {param}],
                            param \in chan.exception_mask)
          [] t = "ChangeInvitation" ->
               IF value
               THEN Applied([chan EXCEPT !.invitation_mask = @ \cup {param}],
                            param \notin chan.invitation_mask)
               ELSE Applied([chan EXCEPT !.invitation_mask = @ \ {param}],
                            param \in chan.invitation_mask)
          [] t = "ChangeOperator" ->
               IF MembersNamed(chan, nick_of, param) = {}
               THEN Refused(chan, "ERR_USERNOTINCHANNEL")
               ELSE LET m == CHOOSE x \in MembersNamed(chan, nick_of, param) : TRUE
                    IN  Applied([chan EXCEPT !.members[m].operator = value],
                                chan.members[m].operator # value)
          [] t = "ChangeVoice" ->
               IF MembersNamed(chan, nick_of, param) = {}
               THEN Refused(chan, "ERR_USERNOTINCHANNEL")
               ELSE LET m == CHOOSE x \in MembersNamed(chan, nick_of, param) : TRUE
                    IN  Applied([chan EXCEPT !.members[m].operator = value],
                                chan.members[m].operator # value)
          [] OTHER -> Applied(chan, FALSE)

\* Channel::new: the default channel with the Ok records of the mode string applied
RECURSIVE ApplyAll(_, _)
ApplyAll(chan, changes) ==
    IF changes = <<>> THEN chan
    ELSE ApplyAll(IF Head(changes).ok
                  THEN apply_mode_change(chan, Head(changes), EmptyMap).chan
                  ELSE chan,
                  Tail(changes))

ChannelNew(modes) == ApplyAll(DefaultChannel, ChannelQuery(modes, TRUE, <<>>))

\* a variant of add_member that makes every new member creator and operator
add_member_every_creator(chan, id) ==
    [chan EXCEPT !.members = MapPut(@, id, MemberModes(TRUE, TRUE, FALSE))]

\* Channel::add_member: the first member is creator and operator
add_member(chan, id) ==
    [chan EXCEPT !.members =
        MapPut(@, id, IF DOMAIN chan.members = {}
                      THEN MemberModes(TRUE, TRUE, FALSE)
                      ELSE MemberModes(FALSE, FALSE, FALSE))]

\* Channel::remove_member
remove_member(chan, id) == [chan EXCEPT !.members = MapRemove(@, id)]

\* Channel::is_banned
is_banned(chan, nick) ==
    /\ nick \in chan.ban_mask
    /\ nick \notin chan.exception_mask
    /\ nick \notin chan.invitation_mask

\* Channel::is_invited
is_invited(chan, nick) == ~chan.invite_only \/ nick \in chan.invitation_mask

\* a can_talk that does not look at moderation
can_talk_unmoderated(chan, id) ==
    ~chan.no_privmsg_from_outside \/ id \in DOMAIN chan.members

\* Channel::can_talk
can_talk(chan, id) ==
    IF chan.moderated
    THEN id \in DOMAIN chan.members /\ (chan.members[id].voice \/ chan.members[id].operator)
    ELSE ~chan.no_privmsg_from_outside \/ id \in DOMAIN chan.members

----------------------------------------------------------------------------
(* Capabilities and registration gates of a client *)

\* the capability tokens the server supports
SupportedCaps ==
    {"account-notify", "away-notify", "batch", "cap-notify", "echo-message",
     "invite-notify", "labeled-response", "message-tags", "multi-prefix", "sasl",
     "server-time", "setname", "userhost-in-names"}

\* one token of a CAP REQ list: a capability name, requested on or off ("-name")
Cap(name) == [name |-> name, on |-> TRUE]

NoCap(name) == [name |-> name, on |-> FALSE]

\* cap::are_supported: every requested token names a supported capability
are_supported(tokens) == \A i \in DOMAIN tokens : tokens[i].name \in SupportedCaps

\* Client::update_capabilities: apply the tokens in order
RECURSIVE update_capabilities(_, _)
update_capabilities(caps, tokens) ==
    IF tokens = <<>> THEN caps
    ELSE update_capabilities(IF Head(tokens).on THEN caps \cup {Head(tokens).name}
                             ELSE caps \ {Head(tokens).name},
                             Tail(tokens))

\* Capabilities::is_capable_of: the capability a command requires, if any
is_capable_of(caps, command) ==
    CASE command = "AUTHENTICATE" -> "sasl" \in caps
      [] command = "TAGMSG" -> "message-tags" \in caps
      [] command = "SETNAME" -> "setname" \in caps
      [] OTHER -> TRUE

\* the number of parameters a command requires
RequiredParams(command) ==
    CASE command \in {"AUTHENTICATE", "CAP", "JOIN", "NICK", "PART", "PASS", "PING",
                      "SETNAME", "TAGMSG", "TOPIC", "WHOIS", "MODE", "NAMES"} -> 1
      [] command \in {"KICK", "PRIVMSG", "NOTICE", "INVITE", "OPER", "KILL"} -> 2
      [] command = "USER" -> 4
      [] OTHER -> 0

\* Message::has_enough_params
has_enough_params(msg) == RequiredParams(msg.command) <= Len(msg.params)

\* msg.params[i] of the fixed array: "" past the parameters given
Param(msg, i) == IF i < Len(msg.params) THEN msg.params[i + 1] ELSE ""

\* commands a client may issue before it is registered
PreRegistration == {"AUTHENTICATE", "CAP", "NICK", "PASS", "QUIT", "USER"}

\* Client::can_issue_command: USER and PASS only before registration, the
\* other commands but the registration ones only after it
can_issue_command(client, command, sub_command) ==
    IF is_registered(client) THEN command \notin {"USER", "PASS"}
    ELSE command \in PreRegistration

\* every gate of the registration sub-state is satisfied
GatesSatisfied(client, state, password) ==
    /\ state.got_nick
    /\ state.got_user
    /\ (password = None \/ state.got_pass)
    /\ ~state.cap_pending
    /\ client.auth_id = None

\* Client::apply_command: advance the gates after a successful command; the
\* client becomes registered when all gates are satisfied and stays so
apply_command(client, command, sub_command, password) ==
    IF client.state.registered THEN client
    ELSE LET st == client.state
             gates ==
                 CASE command = "NICK" -> [st EXCEPT !.got_nick = TRUE]
                   [] command = "USER" -> [st EXCEPT !.got_user = TRUE]
                   [] command = "CAP" /\ sub_command \in {"LS", "REQ"} ->
                        [st EXCEPT !.cap_pending = TRUE]
                   [] command = "CAP" /\ sub_command = "END" ->
                        [st EXCEPT !.cap_pending = FALSE]
                   [] OTHER -> st
         IN  [client EXCEPT !.state =
                 [gates EXCEPT !.registered = GatesSatisfied(client, gates, password)]]

\* Client::auth_reset
auth_reset(client) == [client EXCEPT !.auth_id = None, !.auth_buffer = <<>>]

\* chunks a SASL buffer may hold before ERR_SASLTOOLONG
AuthBufferChunks == 1

\* the chunks of 400 bytes: "FULL" is part of a longer response, "FULLGOOD"
\* holds the whole of a response with valid credentials
FullChunks == {"FULL", "FULLGOOD"}

\* Client::auth_buffer_push: Err when the buffer is full, else the chunk is
\* appended; done when the chunk is shorter than 400 bytes
auth_buffer_push(client, payload) ==
    IF Len(client.auth_buffer) >= AuthBufferChunks
    THEN [ok |-> FALSE, done |-> FALSE, client |-> client]
    ELSE [ok |-> TRUE, done |-> payload \notin FullChunks,
          client |-> [client EXCEPT !.auth_buffer = Append(@, payload)]]

\* Client::auth_buffer_decode: base64 of the whole buffer
auth_buffer_decode(client) ==
    IF \E i \in DOMAIN client.auth_buffer : client.auth_buffer[i] = "BADB64"
    THEN [ok |-> FALSE, decoded |-> <<>>]
    ELSE [ok |-> TRUE, decoded |-> client.auth_buffer]

----------------------------------------------------------------------------
(* Auth providers (src/src/auth.rs) *)

\* Provider::is_available; available is whether the pool yields a connection
is_available(provider, available) ==
    IF provider = "dummy" THEN FALSE ELSE available

\* Provider::start_auth: Ok(0) for PLAIN on the database provider
start_auth(provider, mechanism) ==
    IF provider = "dummy" THEN [ok |-> FALSE, id |-> 0, error |-> "ProviderUnavailable"]
    ELSE IF mechanism # "PLAIN" THEN [ok |-> FALSE, id |-> 0, error |-> "Unsupported"]
    ELSE [ok |-> TRUE, id |-> 0, error |-> ""]

\* Provider::next_challenge: the response is "\0user\0pass"; Ok(Some(user))
\* when the store accepts the pair
next_challenge(provider, available, response) ==
    IF provider = "dummy" THEN [ok |-> FALSE, user |-> None]
    ELSE IF response \in {<<"GOOD">>, <<"FULLGOOD">>} /\ available
    THEN [ok |-> TRUE, user |-> Some("alice")]
    ELSE [ok |-> FALSE, user |-> None]

----------------------------------------------------------------------------
(* Command handlers.  A handler takes the world and the reply buffer of the  *)
(* issuing client and returns the world, the reply buffer and Ok or Err.     *)

Res(w, rb, ok) == [w |-> w, rb |-> rb, ok |-> ok]

Reply(rb, command, param) == Append(rb, ServerLine(command, param))

SetClient(w, id, client) == [w EXCEPT !.clients[id] = client]

\* NICK: the nick must be valid and free; the index follows the rename, and
\* a registered client's NICK is broadcast to itself and the channels it is in
cmd_nick(w, id, rb, nick, nicklen) ==
    LET client == w.clients[id]
    IN  IF ~is_valid_nickname(nick, nicklen)
        THEN Res(w, Reply(rb, "ERR_ERRONEUSNICKNAME", nick), FALSE)
        ELSE IF u(nick) \in DOMAIN w.nicks
        THEN Res(w, Reply(rb, "ERR_NICKNAMEINUSE", nick), FALSE)
        ELSE LET w1 == [w EXCEPT !.nicks = MapPut(RemoveNick(w.nicks, client), u(nick), id),
                                 !.clients[id].nick = nick]
                 line == Line("NICK", client.nick, nick)
             IN  IF ~is_registered(client) THEN Res(w1, rb, TRUE)
                 ELSE Res(send_notification(w1, id, line, ""), Append(rb, line), TRUE)

\* USER: records the username and the realname
cmd_user(w, id, rb, user, real) ==
    Res([w EXCEPT !.clients[id].user = user, !.clients[id].real = real], rb, TRUE)

\* PASS: accepted when it is the configured password
cmd_pass(w, id, rb, password, configured) ==
    IF configured = None THEN Res(w, rb, TRUE)
    ELSE IF configured = Some(password)
    THEN Res([w EXCEPT !.clients[id].state.got_pass = TRUE], rb, TRUE)
    ELSE Res(w, Reply(rb, "ERR_PASSWDMISMATCH", ""), FALSE)

\* StateInner::cmd_cap_ls
cmd_cap_ls(w, id, rb, version, provider, available) ==
    Res([w EXCEPT !.clients[id].v302 = (version = "302")],
        Reply(rb, "CAP LS", is_available(provider, available)), TRUE)

\* the supported tokens of a refused list
SupportedOnly(tokens) == SelectSeq(tokens, LAMBDA t : t.name \in SupportedCaps)

\* cmd_cap_req that applies the supported tokens of a list it refuses
cmd_cap_req_partial(w, id, rb, capabilities) ==
    IF ~are_supported(capabilities)
    THEN Res([w EXCEPT !.clients[id].capabilities =
                 update_capabilities(@, SupportedOnly(capabilities))],
             Reply(rb, "CAP NAK", capabilities), FALSE)
    ELSE Res([w EXCEPT !.clients[id].capabilities = update_capabilities(@, capabilities)],
             Reply(rb, "CAP ACK", capabilities), TRUE)

\* StateInner::cmd_cap_req
cmd_cap_req(w, id, rb, capabilities) ==
    IF ~are_supported(capabilities)
    THEN Res(w, Reply(rb, "CAP NAK", capabilities), FALSE)
    ELSE Res([w EXCEPT !.clients[id].capabilities = update_capabilities(@, capabilities)],
             Reply(rb, "CAP ACK", capabilities), TRUE)

\* StateInner::cmd_cap
cmd_cap(w, id, rb, params, provider, available) ==
    CASE params[1] = "END" -> Res(w, rb, TRUE)
      [] params[1] = "LIST" -> Res(w, Reply(rb, "CAP LIST", w.clients[id].capabilities), TRUE)
      [] params[1] = "LS" ->
           cmd_cap_ls(w, id, rb, IF Len(params) > 1 THEN params[2] ELSE "",
                      provider, available)
      [] params[1] = "REQ" ->
           cmd_cap_req(w, id, rb, IF Len(params) > 1 THEN params[2] ELSE <<>>)
      [] OTHER -> Res(w, Reply(rb, "ERR_INVALIDCAPCMD", params[1]), FALSE)

\* StateInner::continue_auth; id is the handle start_auth returned, and it is
\* used as the index of the client
continue_auth(w, id, ctx_id, rb, provider, available) ==
    IF id \notin DOMAIN w.clients THEN Res([w EXCEPT !.panic = TRUE], rb, FALSE)
    ELSE
    LET client == w.clients[id]
        decoded == auth_buffer_decode(client)
        challenge == next_challenge(provider, available, decoded.decoded)
    IN  IF ~decoded.ok
        THEN Res(SetClient(w, id, auth_reset(client)), Reply(rb, "ERR_SASLFAIL", ""), FALSE)
        ELSE IF challenge.ok /\ challenge.user # None
        THEN LET user == challenge.user[1]
                 w1 == SetClient(w, id, auth_reset([client EXCEPT !.identity = Some(user)]))
             IN  Res(send_notification(w1, ctx_id, Line("ACCOUNT", client.nick, user),
                                       "account-notify"),
                     Reply(Reply(rb, "RPL_LOGGEDIN", user), "RPL_SASLSUCCESS", ""), TRUE)
        ELSE IF challenge.ok
        THEN Res(w, Append(rb, ServerLine("AUTHENTICATE", "+")), TRUE)
        ELSE Res(SetClient(w, id, auth_reset(client)), Reply(rb, "ERR_SASLFAIL", ""), FALSE)

\* cmd_authenticate whose abort answers ERR_SASLABORTED and keeps the exchange
cmd_authenticate_abort_keeps(w, id, rb, payload, provider, available) ==
    LET client == w.clients[id]
        pushed == auth_buffer_push(client, payload)
        started == start_auth(provider, payload)
    IN  IF client.identity # None
        THEN Res(SetClient(w, id, auth_reset(client)), Reply(rb, "ERR_SASLALREADY", ""), FALSE)
        ELSE IF payload = "*" /\ client.auth_id # None
        THEN Res(w, Reply(rb, "ERR_SASLABORTED", ""), TRUE)
        ELSE IF client.auth_id # None
        THEN IF pushed.ok /\ pushed.done
             THEN continue_auth(SetClient(w, id, pushed.client), client.auth_id[1], id, rb,
                                provider, available)
             ELSE IF pushed.ok THEN Res(SetClient(w, id, pushed.client), rb, TRUE)
             ELSE Res(w, Reply(rb, "ERR_SASLTOOLONG", ""), FALSE)
        ELSE IF started.ok
        THEN Res([w EXCEPT !.clients[id].auth_id = Some(started.id)],
                 Append(rb, ServerLine("AUTHENTICATE", "+")), TRUE)
        ELSE IF started.error = "ProviderUnavailable"
        THEN Res(w, Reply(rb, "ERR_SASLFAIL", ""), FALSE)
        ELSE Res(w, Reply(rb, "RPL_SASLMECHS", ""), FALSE)

\* StateInner::cmd_authenticate
cmd_authenticate(w, id, rb, payload, provider, available) ==
    LET client == w.clients[id]
        pushed == auth_buffer_push(client, payload)
        started == start_auth(provider, payload)
    IN  IF client.identity # None
        THEN Res(SetClient(w, id, auth_reset(client)), Reply(rb, "ERR_SASLALREADY", ""), FALSE)
        ELSE IF payload = "*" /\ client.auth_id # None
        THEN Res(SetClient(w, id, auth_reset(client)), Reply(rb, "ERR_SASLABORTED", ""), TRUE)
        ELSE IF client.auth_id # None
        THEN IF pushed.ok /\ pushed.done
             THEN continue_auth(SetClient(w, id, pushed.client), client.auth_id[1], id, rb,
                                provider, available)
             ELSE IF pushed.ok THEN Res(SetClient(w, id, pushed.client), rb, TRUE)
             ELSE Res(w, Reply(rb, "ERR_SASLTOOLONG", ""), FALSE)
        ELSE IF started.ok
        THEN Res([w EXCEPT !.clients[id].auth_id = Some(started.id)],
                 Append(rb, ServerLine("AUTHENTICATE", "+")), TRUE)
        ELSE IF started.error = "ProviderUnavailable"
        THEN Res(w, Reply(rb, "ERR_SASLFAIL", ""), FALSE)
        ELSE Res(w, Reply(rb, "RPL_SASLMECHS", ""), FALSE)

\* QUIT: the cleanup of peer_quit, with the reason the client gave
cmd_quit(w, id, rb, reason) ==
    Res(remove_client([w EXCEPT !.clients = MapRemove(@, id)], id, w.clients[id],
                      reason, Some(reason)),
        rb, TRUE)

\* PING: answered with PONG
cmd_ping(w, id, rb, payload) == Res(w, Append(rb, ServerLine("PONG", payload)), TRUE)

----------------------------------------------------------------------------
(* Channel commands *)

\* find_channel
find_channel(w, rb, name) ==
    IF u(name) \in DOMAIN w.channels
    THEN [ok |-> TRUE, rb |-> rb]
    ELSE [ok |-> FALSE, rb |-> Reply(rb, "ERR_NOSUCHCHANNEL", name)]

\* find_member
find_member(chan, id, rb, name) ==
    IF id \in DOMAIN chan.members
    THEN [ok |-> TRUE, rb |-> rb]
    ELSE [ok |-> FALSE, rb |-> Reply(rb, "ERR_NOTONCHANNEL", name)]

\* find_nick: the id the nick maps to, if that client is registered;
\* &clients[*id] panics when the index names a missing client
find_nick(w, rb, nick) ==
    IF u(nick) \in DOMAIN w.nicks /\ w.nicks[u(nick)] \notin DOMAIN w.clients
    THEN [ok |-> FALSE, panic |-> TRUE, id |-> None, rb |-> rb]
    ELSE IF u(nick) \in DOMAIN w.nicks /\ is_registered(w.clients[w.nicks[u(nick)]])
    THEN [ok |-> TRUE, panic |-> FALSE, id |-> Some(w.nicks[u(nick)]), rb |-> rb]
    ELSE [ok |-> FALSE, panic |-> FALSE, id |-> None,
          rb |-> Reply(rb, "ERR_NOSUCHNICK", nick)]

\* MemberModes::symbol
MemberSymbol(modes) == IF modes.operator THEN "@" ELSE IF modes.voice THEN "+" ELSE ""

\* a variant of send_names that lists a secret channel to anyone
send_names_open(w, id, rb, name) ==
    IF u(name) \notin DOMAIN w.channels THEN [rb |-> rb, panic |-> FALSE]
    ELSE LET chan == w.channels[u(name)]
         IN  IF (DOMAIN chan.members) \ (DOMAIN w.clients) # {}
             THEN [rb |-> rb, panic |-> TRUE]
             ELSE [rb |-> Reply(IF DOMAIN chan.members # {}
                                THEN Reply(rb, "RPL_NAMREPLY",
                                           {[nick |-> w.clients[m].nick,
                                             symbol |-> MemberSymbol(chan.members[m])] :
                                              m \in DOMAIN chan.members})
                                ELSE rb,
                                "RPL_ENDOFNAMES", name),
                   panic |-> FALSE]

\* StateInner::send_names: nothing for a missing channel or a secret channel
\* the client is not in; self.clients[*member] panics on a missing member
send_names(w, id, rb, name) ==
    IF u(name) \notin DOMAIN w.channels THEN [rb |-> rb, panic |-> FALSE]
    ELSE LET chan == w.channels[u(name)]
         IN  IF chan.secret /\ id \notin DOMAIN chan.members
             THEN [rb |-> rb, panic |-> FALSE]
             ELSE IF (DOMAIN chan.members) \ (DOMAIN w.clients) # {}
             THEN [rb |-> rb, panic |-> TRUE]
             ELSE [rb |-> Reply(IF DOMAIN chan.members # {}
                                THEN Reply(rb, "RPL_NAMREPLY",
                                           {[nick |-> w.clients[m].nick,
                                             symbol |-> MemberSymbol(chan.members[m])] :
                                              m \in DOMAIN chan.members})
                                ELSE rb,
                                "RPL_ENDOFNAMES", name),
                   panic |-> FALSE]

\* StateInner::send_topic
send_topic(w, rb, name, send_error) ==
    LET chan == w.channels[u(name)]
    IN  IF chan.topic # None
        THEN Reply(Reply(rb, "RPL_TOPIC", name), "RPL_TOPICWHOTIME", name)
        ELSE IF send_error THEN Reply(rb, "RPL_NOTOPIC", name)
        ELSE rb

\* a line to every member of the channel but the issuer, whose copy goes
\* through its reply buffer
Broadcast(w, id, name, line) ==
    SendAll(w, (DOMAIN w.channels[u(name)].members) \ {id}, line)

\* JOIN of one channel: the join policy, then JOIN to all members, then the
\* topic and the names to the joiner
join_one(w, id, rb, name, key, cfg) ==
    LET client == w.clients[id]
        k == u(name)
        exists == k \in DOMAIN w.channels
        line == Line("JOIN", client.nick, name)
        Named(w2, names) == Res([w2 EXCEPT !.panic = @ \/ names.panic], names.rb, TRUE)
        Joined(w2) ==
            Named(w2, send_names(w2, id, send_topic(w2, Append(rb, line), name, FALSE),
                                 name))
        Admit(chan) ==
            IF exists /\ id \in DOMAIN chan.members THEN Res(w, rb, TRUE)
            ELSE IF exists /\ ~is_invited(chan, client.nick)
            THEN Res(w, Reply(rb, "ERR_INVITEONLYCHAN", name), FALSE)
            ELSE IF exists /\ chan.user_limit # None
                    /\ Cardinality(DOMAIN chan.members) >= chan.user_limit[1]
            THEN Res(w, Reply(rb, "ERR_CHANNELISFULL", name), FALSE)
            ELSE IF exists /\ chan.key # None /\ chan.key # Some(key)
            THEN Res(w, Reply(rb, "ERR_BADCHANKEY", name), FALSE)
            ELSE IF exists /\ is_banned(chan, client.nick)
            THEN Res(w, Reply(rb, "ERR_BANNEDFROMCHAN", name), FALSE)
            ELSE Joined(Broadcast([w EXCEPT !.channels =
                                               MapPut(@, k, add_member(chan, id))],
                                  id, name, line))
    IN  IF ~is_valid_channel_name(name, cfg.channellen)
        THEN Res(w, Reply(rb, "ERR_NOSUCHCHANNEL", name), FALSE)
        ELSE Admit(IF exists THEN w.channels[k] ELSE ChannelNew(cfg.default_chan_mode))

\* JOIN: each channel of the list is processed on its own, with the key at
\* the same position of the key list
RECURSIVE cmd_join(_, _, _, _, _, _)
cmd_join(w, id, rb, targets, keys, cfg) ==
    IF targets = <<>> THEN Res(w, rb, TRUE)
    ELSE LET Both(one, rest) == Res(rest.w, rest.rb, one.ok /\ rest.ok)
             Then(one) == Both(one, cmd_join(one.w, id, one.rb, Tail(targets),
                                             IF keys = <<>> THEN <<>> ELSE Tail(keys),
                                             cfg))
         IN  Then(join_one(w, id, rb, Head(targets),
                           IF keys = <<>> THEN <<>> ELSE Head(keys), cfg))

\* the channel without the member, or no channel when it was the last one
LeaveChannel(chans, k, id) ==
    IF DOMAIN remove_member(chans[k], id).members = {} THEN MapRemove(chans, k)
    ELSE [chans EXCEPT ![k] = remove_member(@, id)]

\* PART of one channel: PART to all members, then the member leaves
part_one(w, id, rb, name, reason) ==
    LET found == find_channel(w, rb, name)
        member == find_member(w.channels[u(name)], id, rb, name)
        line == Line("PART", w.clients[id].nick, name)
        w1 == Broadcast(w, id, name, line)
    IN  IF ~found.ok THEN Res(w, found.rb, FALSE)
        ELSE IF ~member.ok THEN Res(w, member.rb, FALSE)
        ELSE Res([w1 EXCEPT !.channels = LeaveChannel(@, u(name), id)],
                 Append(rb, line), TRUE)

RECURSIVE cmd_part(_, _, _, _, _)
cmd_part(w, id, rb, targets, reason) ==
    IF targets = <<>> THEN Res(w, rb, TRUE)
    ELSE LET Both(one, rest) == Res(rest.w, rest.rb, one.ok /\ rest.ok)
             Then(one) == Both(one, cmd_part(one.w, id, one.rb, Tail(targets), reason))
         IN  Then(part_one(w, id, rb, Head(targets), reason))

\* KICK: an operator of the channel removes a member; KICK goes to all members
cmd_kick(w, id, rb, name, nick, reason) ==
    LET found == find_channel(w, rb, name)
        chan == w.channels[u(name)]
        member == find_member(chan, id, rb, name)
        target == find_nick(w, rb, nick)
        line == Line("KICK", w.clients[id].nick, nick)
        w1 == Broadcast(w, id, name, line)
    IN  IF ~found.ok THEN Res(w, found.rb, FALSE)
        ELSE IF ~member.ok THEN Res(w, member.rb, FALSE)
        ELSE IF ~chan.members[id].operator
        THEN Res(w, Reply(rb, "ERR_CHANOPRIVSNEEDED", name), FALSE)
        ELSE IF target.panic THEN Res([w EXCEPT !.panic = TRUE], rb, FALSE)
        ELSE IF ~target.ok THEN Res(w, target.rb, FALSE)
        ELSE IF target.id[1] \notin DOMAIN chan.members
        THEN Res(w, Reply(rb, "ERR_USERNOTINCHANNEL", nick), FALSE)
        ELSE Res([w1 EXCEPT !.channels = LeaveChannel(@, u(name), target.id[1])],
                 Append(rb, line), TRUE)

----------------------------------------------------------------------------
(* PRIVMSG, NOTICE, TAGMSG and SETNAME *)

\* the message a client sends: the command, the sender as prefix, the target
\* and the optional content; the msgid and time tags are left out
MessageLine(from, cmd, target, content) ==
    Line(cmd, from.nick, [target |-> target, content |-> content])

\* StateInner::build_message: the message for the recipients, and a copy in
\* the reply buffer of a sender that negotiated echo-message
build_message(rb, from, cmd, target, content) ==
    [rb |-> IF "echo-message" \in from.capabilities
            THEN Append(rb, MessageLine(from, cmd, target, content))
            ELSE rb,
     msg |-> MessageLine(from, cmd, target, content)]

\* the members a channel message goes to, whatever the command requires
ChannelRecipientsAnyCapability(w, chan, id, cmd) ==
    {m \in (DOMAIN chan.members) \ {id} : m \in DOMAIN w.clients}

\* the members a channel message goes to: every member but the sender that
\* is in clients and has the capability the command requires
ChannelRecipients(w, chan, id, cmd) ==
    {m \in (DOMAIN chan.members) \ {id} :
        m \in DOMAIN w.clients /\ is_capable_of(w.clients[m].capabilities, cmd)}

\* StateInner::send_query_or_channel_msg
send_query_or_channel_msg(w, id, rb, cmd, target, content, channellen) ==
    LET client == w.clients[id]
        built == build_message(rb, client, cmd, target, content)
        Query(found) ==
            IF found.panic THEN Res([w EXCEPT !.panic = TRUE], rb, FALSE)
            ELSE IF ~found.ok THEN Res(w, found.rb, FALSE)
            ELSE IF ~is_capable_of(w.clients[found.id[1]].capabilities, cmd)
            THEN Res(w, rb, FALSE)
            ELSE Res(ClientSend(w, w.clients[found.id[1]], built.msg),
                     IF w.clients[found.id[1]].away_message # None
                     THEN Reply(built.rb, "RPL_AWAY", target)
                     ELSE built.rb,
                     TRUE)
    IN  IF content = Some("")
        THEN Res(w, Reply(rb, "ERR_NOTEXTTOSEND", ""), FALSE)
        ELSE IF is_valid_channel_name(target, channellen)
        THEN IF ~find_channel(w, rb, target).ok
             THEN Res(w, find_channel(w, rb, target).rb, FALSE)
             ELSE IF ~can_talk(w.channels[u(target)], id)
             THEN Res(w, Reply(rb, "ERR_CANNOTSENDTOCHAN", target), FALSE)
             ELSE Res(SendAll(w, ChannelRecipients(w, w.channels[u(target)], id, cmd),
                              built.msg),
                      built.rb, TRUE)
        ELSE Query(find_nick(w, rb, target))

\* PRIVMSG
cmd_privmsg(w, id, rb, target, content, channellen) ==
    send_query_or_channel_msg(w, id, rb, "PRIVMSG", target, Some(content), channellen)

\* NOTICE
cmd_notice(w, id, rb, target, content, channellen) ==
    send_query_or_channel_msg(w, id, rb, "NOTICE", target, Some(content), channellen)

\* StateInner::cmd_tagmsg
cmd_tagmsg(w, id, rb, target, channellen) ==
    send_query_or_channel_msg(w, id, rb, "TAGMSG", target, None, channellen)

\* a real name longer than any namelen the model configures
LongReal == "a real name of sixty-five bytes"

\* real.len() of the real names the model uses
RealLen(real) ==
    CASE real = "" -> 0
      [] real = LongReal -> 65
      [] OTHER -> 3

\* StateInner::cmd_setname: the notification goes out with the filter
\* |_, _| true
cmd_setname(w, id, rb, real, namelen) ==
    IF RealLen(real) = 0 \/ namelen < RealLen(real)
    THEN Res(w, Append(rb, ServerLine("FAIL", "SETNAME")), FALSE)
    ELSE Res(send_notification([w EXCEPT !.clients[id].real = real], id,
                               Line("SETNAME", w.clients[id].nick, real), ""),
             Append(rb, Line("SETNAME", w.clients[id].nick, real)), TRUE)

----------------------------------------------------------------------------
(* Slab of clients: dense ids, the most recently freed id is reused first *)

SlabNextKey == IF slab_free = <<>> THEN slab_len ELSE Head(slab_free)

CLOSING_LINK == "Closing Link"


Ids == 0 .. (MaxConns - 1)

\* the RPL_WELCOME lines among the lines enqueued on a queue
Welcomes(lines) == Cardinality({i \in DOMAIN lines : lines[i].command = "RPL_WELCOME"})

\* the state after an operation that worked on world w
Commit(w) ==
    /\ clients' = w.clients
    /\ nicks' = w.nicks
    /\ channels' = w.channels
    /\ sent' = w.out
    /\ panicked' = (panicked \/ w.panic)
    /\ welcomed' = [q \in Queues |->
                       IF welcomed[q] + Welcomes(w.out[q]) < MaxWelcomes
                       THEN welcomed[q] + Welcomes(w.out[q]) ELSE MaxWelcomes]
    /\ gone' = gone \cup {clients[i].queue : i \in (DOMAIN clients) \ (DOMAIN w.clients)}
    /\ slab_free' = IF (DOMAIN clients) \ (DOMAIN w.clients) = {} THEN slab_free
                    ELSE <<CHOOSE i \in (DOMAIN clients) \ (DOMAIN w.clients) : TRUE>>
                           \o slab_free

\* one call of an operation of State with its arguments
MakeCall(op, id, err, cfg, provider, msg) ==
    [op |-> op, id |-> id, err |-> err, cfg |-> cfg, provider |-> provider, msg |-> msg]

\* the call of a task that has called nothing
NoCall ==
    MakeCall("none", 0, None, SampleConfig, "dummy",
             [command |-> "PING", params |-> <<"x">>, tags_len |-> 0, label |-> ""])

Init ==
    /\ clients = EmptyMap
    /\ slab_len = 0
    /\ slab_free = <<>>
    /\ nicks = EmptyMap
    /\ channels = EmptyMap
    /\ config = StateOfConfig(SampleConfig)
    /\ auth_provider = "dummy"
    /\ next_queue = 0
    /\ sent = NoLines
    /\ gone = {}
    /\ welcomed = [q \in Queues |-> 0]
    /\ cap_open = {}
    /\ panicked = FALSE
    /\ mutex = None
    /\ pc = [t \in Tasks |-> "idle"]
    /\ call = [t \in Tasks |-> NoCall]

\* StateInner::peer_joined: a new client in the next slab entry
peer_joined ==
    /\ next_queue < MaxConns
    /\ LET id == SlabNextKey
       IN  /\ clients' = MapPut(clients, id, NewClient(next_queue))
           /\ slab_free' = IF slab_free = <<>> THEN slab_free ELSE Tail(slab_free)
           /\ slab_len' = IF slab_free = <<>> THEN slab_len + 1 ELSE slab_len
    /\ next_queue' = next_queue + 1
    /\ sent' = NoLines
    /\ UNCHANGED <<nicks, channels, config, auth_provider, gone, welcomed, cap_open,
                   panicked>>

\* the negotiations still open once the client of the id is removed
CapClosed(id) ==
    IF id \in DOMAIN clients THEN cap_open \ {clients[id].queue} ELSE cap_open

\* peer_quit that reads the client and leaves its entry in the slab
peer_quit_keeps_entry(id, err) ==
    /\ IF id \notin DOMAIN clients
       THEN /\ sent' = NoLines
            /\ UNCHANGED <<clients, nicks, channels, gone, panicked, slab_free, welcomed>>
       ELSE LET w == remove_client(World(clients, nicks, channels), id, clients[id],
                                   IF err # None THEN err[1] ELSE CLOSING_LINK, err)
            IN  /\ clients' = w.clients
                /\ nicks' = w.nicks
                /\ channels' = w.channels
                /\ sent' = w.out
                /\ gone' = gone \cup {clients[id].queue}
                /\ UNCHANGED <<panicked, slab_free, welcomed>>
    /\ cap_open' = CapClosed(id)
    /\ UNCHANGED <<slab_len, config, auth_provider, next_queue>>

\* StateInner::peer_quit, with an optional io error
peer_quit(id, err) ==
    /\ IF id \notin DOMAIN clients
       THEN /\ sent' = NoLines
            /\ UNCHANGED <<clients, nicks, channels, gone, panicked, slab_free, welcomed>>
       ELSE LET client == clients[id]
                w0 == World(MapRemove(clients, id), nicks, channels)
            IN  IF err # None
                THEN Commit(remove_client(w0, id, client, err[1], err))
                ELSE Commit(remove_client(w0, id, client, CLOSING_LINK, None))
    /\ cap_open' = CapClosed(id)
    /\ UNCHANGED <<slab_len, config, auth_provider, next_queue>>

\* remove_if_unregistered with the nick removed before the registration test
remove_if_unregistered_nick_first(id) ==
    /\ IF id \in DOMAIN clients
       THEN Commit(World(IF is_registered(clients[id]) THEN clients
                         ELSE MapRemove(clients, id),
                         RemoveNick(nicks, clients[id]), channels))
       ELSE /\ sent' = NoLines
            /\ UNCHANGED <<clients, nicks, channels, gone, panicked, slab_free, welcomed>>
    /\ cap_open' = IF id \in DOMAIN clients /\ ~is_registered(clients[id])
                   THEN CapClosed(id) ELSE cap_open
    /\ UNCHANGED <<slab_len, config, auth_provider, next_queue>>

\* a variant of remove_if_unregistered that does not look at the registration
remove_if_unregistered_anyone(id) ==
    /\ IF id \in DOMAIN clients
       THEN Commit(World(MapRemove(clients, id), RemoveNick(nicks, clients[id]),
                         channels))
       ELSE /\ sent' = NoLines
            /\ UNCHANGED <<clients, nicks, channels, gone, panicked, slab_free, welcomed>>
    /\ cap_open' = IF id \in DOMAIN clients THEN CapClosed(id) ELSE cap_open
    /\ UNCHANGED <<slab_len, config, auth_provider, next_queue>>

\* StateInner::remove_if_unregistered, called by the login timer
remove_if_unregistered(id) ==
    /\ IF id \in DOMAIN clients /\ ~is_registered(clients[id])
       THEN Commit(World(MapRemove(clients, id), RemoveNick(nicks, clients[id]),
                         channels))
       ELSE /\ sent' = NoLines
            /\ UNCHANGED <<clients, nicks, channels, gone, panicked, slab_free, welcomed>>
    /\ cap_open' = IF id \in DOMAIN clients /\ ~is_registered(clients[id])
                   THEN CapClosed(id) ELSE cap_open
    /\ UNCHANGED <<slab_len, config, auth_provider, next_queue>>

\* a variant of rehash that also evicts the clients that have not registered
rehash_evicting(cfg, provider) ==
    /\ config' = RehashConfig(config, cfg)
    /\ auth_provider' = provider
    /\ sent' = NoLines
    /\ clients' = [id \in {i \in DOMAIN clients : is_registered(clients[i])} |-> clients[id]]
    /\ UNCHANGED <<slab_len, slab_free, nicks, channels, next_queue, gone,
                   welcomed, cap_open, panicked>>

\* StateInner::rehash: replaces the configuration and the auth provider
rehash(cfg, provider) ==
    /\ config' = RehashConfig(config, cfg)
    /\ auth_provider' = provider
    /\ sent' = NoLines
    /\ UNCHANGED <<clients, slab_len, slab_free, nicks, channels, next_queue, gone,
                   welcomed, cap_open, panicked>>


----------------------------------------------------------------------------
(* handle_message *)

\* the Command enum of the tokens crate
Commands ==
    {"ADMIN", "AUTHENTICATE", "AWAY", "CAP", "INFO", "INVITE", "JOIN", "KICK", "KILL",
     "LIST", "LUSERS", "MODE", "MOTD", "NAMES", "NICK", "NOTICE", "OPER", "PART", "PASS",
     "PING", "PONG", "PRIVMSG", "QUIT", "REHASH", "SETNAME", "TAGMSG", "TIME", "TOPIC",
     "USER", "VERSION", "WHO", "WHOIS"}

\* points_of
points_of(command) ==
    CASE command \in {"ADMIN", "CAP", "PING", "PONG", "QUIT", "REHASH", "USER", "VERSION"} -> 1
      [] command \in {"INFO", "KICK", "KILL", "LUSERS", "MODE", "MOTD", "NAMES", "PASS",
                      "TIME"} -> 2
      [] command \in {"TOPIC", "WHO", "WHOIS"} -> 3
      [] command \in {"AWAY", "INVITE", "JOIN", "NICK", "NOTICE", "PART", "PRIVMSG",
                      "SETNAME", "TAGMSG"} -> 4
      [] command \in {"AUTHENTICATE", "LIST", "OPER"} -> 6
      [] OTHER -> 1

\* a rejection that costs one point whatever the check that failed
RejectedOnePoint(reply, points) == [rejected |-> TRUE, reply |-> reply, points |-> 1]

\* a rejection before dispatch: the reply, and the points returned
Rejected(reply, points) == [rejected |-> TRUE, reply |-> reply, points |-> points]

\* the tag check that refuses a blob of MAX_TAG_DATA_LENGTH bytes as well
TagsTooLongInclusive(msg) == MAX_TAG_DATA_LENGTH <= msg.tags_len

\* MAX_TAG_DATA_LENGTH < msg.tags.len()
TagsTooLong(msg) == MAX_TAG_DATA_LENGTH < msg.tags_len

\* the checks before dispatch without the one of can_issue_command
PreDispatchAnyState(client, msg) ==
    LET command == msg.command
        registered == is_registered(client)
    IN  IF TagsTooLong(msg)
        THEN Rejected("ERR_INPUTTOOLONG", 3)
        ELSE IF command \notin Commands
        THEN Rejected(IF registered THEN "ERR_UNKNOWNCOMMAND" ELSE "ERR_NOTREGISTERED", 1)
        ELSE IF ~is_capable_of(client.capabilities, command)
        THEN Rejected(IF registered THEN "ERR_UNKNOWNCOMMAND" ELSE "ERR_NOTREGISTERED", 2)
        ELSE IF ~has_enough_params(msg)
        THEN Rejected("ERR_NEEDMOREPARAMS", 1)
        ELSE [rejected |-> FALSE, reply |-> "", points |-> 0]

\* the checks before dispatch with the parameters counted before the
\* capability is looked at
PreDispatchArityFirst(client, msg) ==
    LET command == msg.command
        registered == is_registered(client)
        n == Len(msg.params)
    IN  IF TagsTooLong(msg)
        THEN Rejected("ERR_INPUTTOOLONG", 3)
        ELSE IF command \notin Commands
        THEN Rejected(IF registered THEN "ERR_UNKNOWNCOMMAND" ELSE "ERR_NOTREGISTERED", 1)
        ELSE IF ~has_enough_params(msg)
        THEN Rejected(CASE command \in {"NICK", "WHOIS"} -> "ERR_NONICKNAMEGIVEN"
                        [] command \in {"PRIVMSG", "NOTICE", "TAGMSG"} /\ n = 0 ->
                             "ERR_NORECIPIENT"
                        [] command \in {"PRIVMSG", "NOTICE"} /\ n = 1 -> "ERR_NOTEXTTOSEND"
                        [] OTHER -> "ERR_NEEDMOREPARAMS",
                      1)
        ELSE IF ~is_capable_of(client.capabilities, command)
        THEN Rejected(IF registered THEN "ERR_UNKNOWNCOMMAND" ELSE "ERR_NOTREGISTERED", 2)
        ELSE IF ~can_issue_command(client, command, Param(msg, 0))
        THEN Rejected(IF registered THEN "ERR_ALREADYREGISTRED" ELSE "ERR_NOTREGISTERED", 2)
        ELSE [rejected |-> FALSE, reply |-> "", points |-> 0]

\* the checks of handle_message before the handler is dispatched, in order:
\* tag size, command, capability, parameters, registration
PreDispatch(client, msg) ==
    LET command == msg.command
        registered == is_registered(client)
        n == Len(msg.params)
    IN  IF TagsTooLong(msg)
        THEN Rejected("ERR_INPUTTOOLONG", 3)
        ELSE IF command \notin Commands
        THEN Rejected(IF registered THEN "ERR_UNKNOWNCOMMAND" ELSE "ERR_NOTREGISTERED", 1)
        ELSE IF ~is_capable_of(client.capabilities, command)
        THEN Rejected(IF registered THEN "ERR_UNKNOWNCOMMAND" ELSE "ERR_NOTREGISTERED", 2)
        ELSE IF ~has_enough_params(msg)
        THEN Rejected(CASE command \in {"NICK", "WHOIS"} -> "ERR_NONICKNAMEGIVEN"
                        [] command \in {"PRIVMSG", "NOTICE", "TAGMSG"} /\ n = 0 ->
                             "ERR_NORECIPIENT"
                        [] command \in {"PRIVMSG", "NOTICE"} /\ n = 1 -> "ERR_NOTEXTTOSEND"
                        [] OTHER -> "ERR_NEEDMOREPARAMS",
                      1)
        ELSE IF ~can_issue_command(client, command, Param(msg, 0))
        THEN Rejected(IF registered THEN "ERR_ALREADYREGISTRED" ELSE "ERR_NOTREGISTERED", 2)
        ELSE [rejected |-> FALSE, reply |-> "", points |-> 0]

\* the second parameter when it is a list (channel keys), empty when absent
ListParam(msg, i) == IF i < Len(msg.params) THEN msg.params[i + 1] ELSE <<>>

\* StateInner::handle_message_inner: dispatch to the handler of the command
handle_message_inner(w, id, rb, msg, cfg, provider, available) ==
    LET command == msg.command
        ps == msg.params
    IN  CASE command = "AUTHENTICATE" ->
               cmd_authenticate(w, id, rb, ps[1], provider, available)
          [] command = "CAP" -> cmd_cap(w, id, rb, ps, provider, available)
          [] command = "JOIN" -> cmd_join(w, id, rb, ps[1], ListParam(msg, 1), cfg)
          [] command = "KICK" -> cmd_kick(w, id, rb, ps[1], ps[2], Param(msg, 2))
          [] command = "NICK" -> cmd_nick(w, id, rb, ps[1], cfg.nicklen)
          [] command = "PART" -> cmd_part(w, id, rb, ps[1], Param(msg, 1))
          [] command = "PASS" -> cmd_pass(w, id, rb, ps[1], cfg.password)
          [] command = "NOTICE" -> cmd_notice(w, id, rb, ps[1], ps[2], cfg.channellen)
          [] command = "PING" -> cmd_ping(w, id, rb, ps[1])
          [] command = "PRIVMSG" -> cmd_privmsg(w, id, rb, ps[1], ps[2], cfg.channellen)
          [] command = "SETNAME" -> cmd_setname(w, id, rb, ps[1], cfg.namelen)
          [] command = "TAGMSG" -> cmd_tagmsg(w, id, rb, ps[1], cfg.channellen)
          [] command = "QUIT" -> cmd_quit(w, id, rb, Param(msg, 0))
          [] command = "USER" -> cmd_user(w, id, rb, ps[1], ps[4])
          [] OTHER -> Res(w, rb, TRUE)

\* StateInner::send_lusers
send_lusers(w, rb) ==
    LET unknown == {i \in DOMAIN w.clients : ~is_registered(w.clients[i])}
        r1 == Reply(rb, "RPL_LUSERCLIENT", Cardinality(DOMAIN w.clients))
        r2 == IF unknown # {} THEN Reply(r1, "RPL_LUSERUNKNOWN", Cardinality(unknown)) ELSE r1
        r3 == IF DOMAIN w.channels # {}
              THEN Reply(r2, "RPL_LUSERCHANNELS",
                         Cardinality({k \in DOMAIN w.channels : ~w.channels[k].secret}))
              ELSE r2
    IN  Reply(r3, "RPL_LUSERME", Cardinality(DOMAIN w.clients))

\* StateInner::send_motd
send_motd(rb, cfg) ==
    IF cfg.motd # None
    THEN Reply(Reply(Reply(rb, "RPL_MOTDSTART", ""), "RPL_MOTD", cfg.motd[1]),
               "RPL_ENDOFMOTD", "")
    ELSE Reply(rb, "ERR_NOMOTD", "")

\* StateInner::send_welcome
send_welcome(w, id, rb, cfg) ==
    LET r1 == Reply(rb, "RPL_WELCOME", w.clients[id].nick)
        r2 == Reply(Reply(Reply(r1, "RPL_YOURHOST", ""), "RPL_CREATED", ""), "RPL_MYINFO", "")
        r3 == Reply(Reply(r2, "RPL_ISUPPORT", 1), "RPL_ISUPPORT", 2)
    IN  send_motd(send_lusers(w, r3), cfg)

\* ReplyBuffer::end_lr: with a label, the replies are wrapped in a batch, and
\* no reply at all becomes one ACK
end_lr(rb, label) ==
    IF label = "" THEN rb
    ELSE IF rb = <<>> THEN <<ServerLine("ACK", label)>>
    ELSE <<ServerLine("BATCH", label)>> \o rb \o <<ServerLine("BATCH", "")>>

\* the gates advanced after a failed command as well
AfterCommandAlways(client, ok, command, sub_command, password) ==
    apply_command(client, command, sub_command, password)

\* a failed command that takes the registration back
AfterCommandResetting(client, ok, command, sub_command, password) ==
    IF ok THEN apply_command(client, command, sub_command, password)
    ELSE [client EXCEPT !.state.registered = FALSE]

\* if cmd_result.is_ok(): the gates advance only after a successful command
AfterCommand(client, ok, command, sub_command, password) ==
    IF ok THEN apply_command(client, command, sub_command, password) ELSE client

\* the welcome sent whenever the client is registered after the command
ShouldWelcomeWhenRegistered(old_state, new_state) == new_state.registered

\* new_state.is_registered() && !old_state.is_registered()
ShouldWelcome(old_state, new_state) == new_state.registered /\ ~old_state.registered

\* the outcome of handle_message for a client that exists
HandleOutcome(id, msg, available) ==
    LET client == clients[id]
        label == IF "labeled-response" \in client.capabilities THEN msg.label ELSE ""
        w0 == World(clients, nicks, channels)
        Ended(w1, rb, ok, welcome) ==
            [w |-> w1,
             rb |-> end_lr(IF welcome THEN send_welcome(w1, id, rb, config) ELSE rb,
                           label),
             ret |-> Some(IF ok THEN points_of(msg.command)
                          ELSE 2 * points_of(msg.command)),
             dispatched |-> TRUE, welcome |-> welcome]
        Advanced(res, applied) ==
            Ended(SetClient(res.w, id, applied), res.rb, res.ok,
                  res.ok /\ ShouldWelcome(res.w.clients[id].state, applied.state))
        Dispatched(res) ==
            IF res.w.panic \/ id \notin DOMAIN res.w.clients
            THEN [w |-> res.w, rb |-> res.rb, ret |-> None, dispatched |-> TRUE,
                  welcome |-> FALSE]
            ELSE Advanced(res, AfterCommand(res.w.clients[id], res.ok, msg.command,
                                            Param(msg, 0), config.password))
        Checked(pre) ==
            IF pre.rejected
            THEN [w |-> w0, rb |-> end_lr(<<ServerLine(pre.reply, "")>>, label),
                  ret |-> Some(pre.points), dispatched |-> FALSE, welcome |-> FALSE]
            ELSE Dispatched(handle_message_inner(w0, id, <<>>, msg, config,
                                                 auth_provider, available))
    IN  Checked(PreDispatch(client, msg))

\* the negotiations open after handle_message: a dispatched CAP LS or CAP REQ
\* of an unregistered client opens one, a dispatched CAP END or QUIT closes it
CapOpen(id, msg) ==
    LET client == clients[id]
        sub_command == Param(msg, 0)
    IN  IF PreDispatch(client, msg).rejected THEN cap_open
        ELSE IF msg.command = "QUIT" THEN cap_open \ {client.queue}
        ELSE IF msg.command = "CAP" /\ sub_command \in {"LS", "REQ"}
                /\ ~is_registered(client)
        THEN cap_open \cup {client.queue}
        ELSE IF msg.command = "CAP" /\ sub_command = "END" THEN cap_open \ {client.queue}
        ELSE cap_open

\* StateInner::handle_message; available is whether the database of the auth
\* provider answers during this call
handle_message(id, msg, available) ==
    /\ IF id \notin DOMAIN clients
       THEN /\ sent' = NoLines
            /\ UNCHANGED <<clients, nicks, channels, gone, panicked, slab_free, welcomed>>
       ELSE LET Flush(o) == Commit([o.w EXCEPT !.out[clients[id].queue] = @ \o o.rb])
            IN  Flush(HandleOutcome(id, msg, available))
    /\ cap_open' = IF id \in DOMAIN clients THEN CapOpen(id, msg) ELSE cap_open
    /\ UNCHANGED <<slab_len, config, auth_provider, next_queue>>


----------------------------------------------------------------------------
(* Inputs of the environment *)

Msg(command, params) == [command |-> command, params |-> params, tags_len |-> 0, label |-> ""]

\* the messages of a registration: NICK, USER, PASS, CAP, AUTHENTICATE, and
\* the ones rejected before dispatch
RegMsgs ==
    {Msg("NICK", <<NickLa>>), Msg("NICK", <<NickUa>>), Msg("NICK", <<NickLb>>),
     Msg("NICK", <<NickBad>>),
     Msg("USER", <<"u", "0", "*", "r">>),
     Msg("PASS", <<"pw">>), Msg("PASS", <<"bad">>),
     Msg("CAP", <<"LS">>), Msg("CAP", <<"END">>),
     Msg("CAP", <<"REQ", <<Cap("sasl")>>>>),
     Msg("CAP", <<"REQ", <<NoCap("sasl")>>>>),
     Msg("CAP", <<"REQ", <<Cap("sasl"), Cap("bogus")>>>>),
     Msg("CAP", <<"REQ", <<Cap("labeled-response")>>>>),
     [Msg("CAP", <<"END">>) EXCEPT !.label = "l1"],
     Msg("AUTHENTICATE", <<"PLAIN">>), Msg("AUTHENTICATE", <<"*">>),
     Msg("AUTHENTICATE", <<"GOOD">>),
     Msg("QUIT", <<"bye">>)}

\* the messages of channel life: registration by NICK and USER, then JOIN,
\* PART, KICK, QUIT and renames
ChanMsgs ==
    {Msg("NICK", <<n>>) : n \in {NickLa, NickUa, NickLb, NickLc}}
      \cup {Msg("USER", <<"u", "0", "*", "r">>), Msg("QUIT", <<"bye">>)}
      \cup {Msg("JOIN", <<<<c>>>>) : c \in {ChanX, ChanUX, ChanY, ChanBad}}
      \cup {Msg("PART", <<<<c>>>>) : c \in {ChanX, ChanY}}
      \cup {Msg("KICK", <<ChanX, n>>) : n \in {NickLa, NickLb}}

\* the messages of SASL among clients that share a channel: registration,
\* sasl with account-notify, JOIN, the mechanism and the chunks
SaslMsgs ==
    {Msg("NICK", <<NickLa>>), Msg("NICK", <<NickLb>>),
     Msg("USER", <<"u", "0", "*", "r">>),
     Msg("CAP", <<"REQ", <<Cap("sasl"), Cap("account-notify")>>>>),
     Msg("JOIN", <<<<ChanX>>>>),
     Msg("AUTHENTICATE", <<"PLAIN">>), Msg("AUTHENTICATE", <<"GOOD">>),
     Msg("AUTHENTICATE", <<"FULLGOOD">>)}

\* messages that stop at a check of handle_message: a tag blob of 4095 bytes
\* (one of 4094 bytes passes), an unknown command, too few parameters, and
\* PING, refused to a client that is not registered
GateMsgs ==
    {[Msg("NICK", <<NickLb>>) EXCEPT !.tags_len = MAX_TAG_DATA_LENGTH],
     [Msg("NICK", <<NickLb>>) EXCEPT !.tags_len = MAX_TAG_DATA_LENGTH + 1],
     Msg("FOO", <<>>), Msg("NICK", <<>>), Msg("PING", <<"x">>)}

\* NICK with a nickname of exactly NICKLEN bytes, and of one byte more
LongNickMsgs == {Msg("NICK", <<Nick9>>), Msg("NICK", <<Nick10>>)}

Errs == {None, Some("io error")}

Configs == {SampleConfig, PasswordConfig}

Providers == {"dummy", "db"}

----------------------------------------------------------------------------
(* Specifications *)

\* the operations of StateInner called one at a time, with no caller waiting
PeerJoined == peer_joined /\ UNCHANGED lock_vars

PeerQuit == \E id \in Ids, err \in Errs : peer_quit(id, err) /\ UNCHANGED lock_vars

RemoveIfUnregistered == \E id \in Ids : remove_if_unregistered(id) /\ UNCHANGED lock_vars

Rehash == \E cfg \in Configs, provider \in Providers : rehash(cfg, provider) /\ UNCHANGED lock_vars

\* a rehash that keeps the auth provider
RehashConfigOnly == \E cfg \in Configs : rehash(cfg, auth_provider) /\ UNCHANGED lock_vars

HandleRegMessage ==
    \E id \in Ids, msg \in RegMsgs \cup GateMsgs \cup LongNickMsgs, available \in BOOLEAN :
       handle_message(id, msg, available)
          /\ UNCHANGED lock_vars

HandleChanMessage ==
    \E id \in Ids, msg \in ChanMsgs : handle_message(id, msg, TRUE)
          /\ UNCHANGED lock_vars

\* a rehash that changes the auth provider only
RehashProvider == \E provider \in Providers : rehash(SampleConfig, provider) /\ UNCHANGED lock_vars

HandleSaslMessage ==
    \E id \in Ids, msg \in SaslMsgs : handle_message(id, msg, TRUE)
          /\ UNCHANGED lock_vars

\* SASL between two connections: registration, a shared channel, and
\* exchanges whose chunks are buffered or complete
NextSasl ==
    \/ (next_queue < PairConns /\ PeerJoined)
    \/ RehashProvider
    \/ HandleSaslMessage

SpecSasl == Init /\ [][NextSasl]_vars

\* registration: two connections, the whole registration alphabet
NextReg ==
    \/ (next_queue < RegConns /\ PeerJoined)
    \/ PeerQuit
    \/ RemoveIfUnregistered
    \/ Rehash
    \/ HandleRegMessage

SpecReg == Init /\ [][NextReg]_vars

\* channels: connections that register, join, part, kick and quit
Next ==
    \/ (next_queue < PairConns /\ PeerJoined)
    \/ PeerQuit
    \/ RemoveIfUnregistered
    \/ RehashConfigOnly
    \/ HandleChanMessage

Spec == Init /\ [][Next]_vars

\* the messages of a SASL exchange begun on one connection while another
\* connection comes and goes
AuthMsgs ==
    {Msg("NICK", <<NickLa>>), Msg("USER", <<"u", "0", "*", "r">>),
     Msg("CAP", <<"REQ", <<Cap("sasl")>>>>),
     Msg("AUTHENTICATE", <<"PLAIN">>), Msg("AUTHENTICATE", <<"GOOD">>)}

HandleAuthMessage ==
    \E id \in Ids, msg \in AuthMsgs : handle_message(id, msg, TRUE)
          /\ UNCHANGED lock_vars

\* SASL exchanges among connections that open and close
NextAuth ==
    \/ (next_queue < PairConns /\ PeerJoined)
    \/ PeerQuit
    \/ RehashProvider
    \/ HandleAuthMessage

SpecAuth == Init /\ [][NextAuth]_vars

\* the messages of three clients that register, take capabilities, join a
\* channel and talk to it, to each other and to targets that do not exist
TalkMsgs ==
    {Msg("NICK", <<n>>) : n \in {NickLa, NickLb, NickLc}}
      \cup {Msg("USER", <<"u", "0", "*", "r">>),
            Msg("CAP", <<"REQ", <<Cap("message-tags"), Cap("echo-message")>>>>),
            Msg("JOIN", <<<<ChanX>>>>),
            Msg("PRIVMSG", <<ChanX, "hi">>), Msg("PRIVMSG", <<ChanX, "">>),
            Msg("TAGMSG", <<ChanX>>), Msg("NOTICE", <<ChanY, "hi">>),
            Msg("PRIVMSG", <<NickLa, "hi">>), Msg("TAGMSG", <<NickLb>>),
            Msg("NOTICE", <<NickUnused, "hi">>)}

HandleTalkMessage ==
    \E id \in Ids, msg \in TalkMsgs : handle_message(id, msg, TRUE)
          /\ UNCHANGED lock_vars

\* three connections that talk
NextTalk ==
    \/ PeerJoined
    \/ HandleTalkMessage

SpecTalk == Init /\ [][NextTalk]_vars

\* the messages of two clients that register, one or both with setname, join
\* a channel and change their real name
SetnameMsgs ==
    {Msg("NICK", <<NickLa>>), Msg("NICK", <<NickLb>>),
     Msg("USER", <<"u", "0", "*", "r">>),
     Msg("CAP", <<"REQ", <<Cap("setname")>>>>),
     Msg("JOIN", <<<<ChanX>>>>), Msg("PART", <<<<ChanX>>>>),
     Msg("SETNAME", <<"new">>), Msg("SETNAME", <<"">>), Msg("SETNAME", <<LongReal>>)}

HandleSetnameMessage ==
    \E id \in Ids, msg \in SetnameMsgs : handle_message(id, msg, TRUE)
          /\ UNCHANGED lock_vars

\* two connections that change their real names
NextSetname ==
    \/ (next_queue < PairConns /\ PeerJoined)
    \/ HandleSetnameMessage

SpecSetname == Init /\ [][NextSetname]_vars

----------------------------------------------------------------------------
(* State: the Mutex around StateInner and the tasks that call through it *)

\* the messages the tasks hand to handle_message
LockMsgs ==
    {Msg("NICK", <<NickLa>>), Msg("NICK", <<NickLb>>),
     Msg("USER", <<"u", "0", "*", "r">>), Msg("JOIN", <<<<ChanX>>>>)}

\* the calls a task may make
Calls ==
    {MakeCall("peer_joined", 0, None, SampleConfig, "dummy", NoCall.msg)}
      \cup {MakeCall("peer_quit", id, None, SampleConfig, "dummy", NoCall.msg) :
               id \in 0 .. (PairConns - 1)}
      \cup {MakeCall("remove_if_unregistered", id, None, SampleConfig, "dummy", NoCall.msg) :
               id \in 0 .. (PairConns - 1)}
      \cup {MakeCall("rehash", 0, None, PasswordConfig, "db", NoCall.msg)}
      \cup {MakeCall("handle_message", id, None, SampleConfig, "dummy", msg) :
               id \in 0 .. (PairConns - 1), msg \in LockMsgs}

\* the operation of StateInner a call runs once it holds the lock
Performs(c) ==
    \/ c.op = "peer_joined" /\ peer_joined
    \/ c.op = "peer_quit" /\ peer_quit(c.id, c.err)
    \/ c.op = "remove_if_unregistered" /\ remove_if_unregistered(c.id)
    \/ c.op = "rehash" /\ rehash(c.cfg, c.provider)
    \/ c.op = "handle_message" /\ handle_message(c.id, c.msg, TRUE)

\* a task calls an operation of State and starts to wait for the lock;
\* connections are handed in while the bound on them allows
CallState(t, c) ==
    /\ pc[t] = "idle"
    /\ c.op = "peer_joined" =>
          next_queue + Cardinality({x \in Tasks : call[x].op = "peer_joined"}) < PairConns
    /\ pc' = [pc EXCEPT ![t] = "waiting"]
    /\ call' = [call EXCEPT ![t] = c]
    /\ UNCHANGED <<clients, slab_len, slab_free, nicks, channels, config, auth_provider,
                   next_queue, sent, gone, welcomed, cap_open, panicked, mutex>>

\* a lock that is granted whether or not another task holds it
LockAnyway(t) ==
    /\ pc[t] = "waiting"
    /\ mutex' = Some(t)
    /\ pc' = [pc EXCEPT ![t] = "running"]
    /\ UNCHANGED <<clients, slab_len, slab_free, nicks, channels, config, auth_provider,
                   next_queue, sent, gone, welcomed, cap_open, panicked, call>>

\* self.0.lock().await: the waiting task gets the lock once it is free
Lock(t) ==
    /\ pc[t] = "waiting"
    /\ mutex = None
    /\ mutex' = Some(t)
    /\ pc' = [pc EXCEPT ![t] = "running"]
    /\ UNCHANGED <<clients, slab_len, slab_free, nicks, channels, config, auth_provider,
                   next_queue, sent, gone, welcomed, cap_open, panicked, call>>

\* the operation runs on StateInner and the guard is dropped
Run(t) ==
    /\ pc[t] = "running"
    /\ Performs(call[t])
    /\ mutex' = None
    /\ pc' = [pc EXCEPT ![t] = "idle"]
    /\ call' = [call EXCEPT ![t] = NoCall]

CallSome == \E t \in Tasks, c \in Calls : CallState(t, c)

LockSome == \E t \in Tasks : Lock(t)

RunSome == \E t \in Tasks : Run(t)

\* concurrent callers of one State
NextLock ==
    \/ CallSome
    \/ LockSome
    \/ RunSome

SpecLock == Init /\ [][NextLock]_vars

----------------------------------------------------------------------------
(* Channel::apply_mode_change and send_names applied to the channels of
   registered clients *)

\* a key, another key, the limit "2" and a limit that is no number
KeyK == <<107>>
KeyL == <<108>>
LimitTwo == <<50>>
LimitBad == <<120>>

\* a client that has registered with this nick on this queue
RegisteredClient(queue, nick) ==
    [NewClient(queue) EXCEPT !.nick = nick, !.user = "u", !.real = "r",
                             !.state = [got_nick |-> TRUE, got_user |-> TRUE,
                                        got_pass |-> FALSE, cap_pending |-> FALSE,
                                        registered |-> TRUE]]

\* the first n of the three clients have joined the channel, in order
RECURSIVE JoinedInOrder(_, _)
JoinedInOrder(chan, n) ==
    IF n = 0 THEN chan ELSE add_member(JoinedInOrder(chan, n - 1), n - 1)

\* three registered clients a, b and c, and the channel #x that a created and
\* the next clients joined, as NICK, USER and JOIN leave them
InitModes ==
    /\ clients = [id \in 0 .. 2 |->
                    RegisteredClient(id, <<NickLa, NickLb, NickLc>>[id + 1])]
    /\ slab_len = 3
    /\ slab_free = <<>>
    /\ nicks = [n \in {NickLa, NickLb, NickLc} |->
                  CHOOSE id \in 0 .. 2 : <<NickLa, NickLb, NickLc>>[id + 1] = n]
    /\ \E n \in 1 .. 3 :
          channels = [k \in {u(ChanX)} |->
                        JoinedInOrder(ChannelNew(SampleConfig.default_chan_mode), n)]
    /\ config = StateOfConfig(SampleConfig)
    /\ auth_provider = "dummy"
    /\ next_queue = 3
    /\ sent = NoLines
    /\ gone = {}
    /\ welcomed = [q \in Queues |-> 1]
    /\ cap_open = {}
    /\ panicked = FALSE
    /\ mutex = None
    /\ pc = [t \in Tasks |-> "idle"]
    /\ call = [t \in Tasks |-> NoCall]

\* the nick of each member, as the callers of apply_mode_change look it up
NickOfMembers(chan) == [m \in DOMAIN chan.members |-> clients[m].nick]

\* the mode change records applied to the channels
ModeRecords ==
    {Change(t, v, None) : t \in {"Secret", "Moderated"}, v \in BOOLEAN}
      \cup {Change("Key", v, p) : v \in BOOLEAN, p \in {KeyK, KeyL}}
      \cup {Change("UserLimit", TRUE, LimitTwo), Change("UserLimit", TRUE, LimitBad),
            Change("UserLimit", FALSE, None)}
      \cup {Change("ChangeBan", v, NickLc) : v \in BOOLEAN}
      \cup {Change(t, v, p) : t \in {"ChangeOperator", "ChangeVoice"}, v \in BOOLEAN,
                              p \in {NickLa, NickLb, NickUnused}}

\* Channel::apply_mode_change on one channel of the state
ApplyModeChange(k, change) ==
    /\ channels' = [channels EXCEPT
                       ![k] = apply_mode_change(@, change, NickOfMembers(@)).chan]
    /\ sent' = NoLines
    /\ UNCHANGED <<clients, slab_len, slab_free, nicks, config, auth_provider,
                   next_queue, gone, welcomed, cap_open, panicked, lock_vars>>

\* StateInner::send_names for one client and one channel name
SendNames(id, name) ==
    /\ sent' = [NoLines EXCEPT ![clients[id].queue] =
                   send_names(World(clients, nicks, channels), id, <<>>, name).rb]
    /\ panicked' = (panicked
                      \/ send_names(World(clients, nicks, channels), id, <<>>, name).panic)
    /\ UNCHANGED <<clients, slab_len, slab_free, nicks, channels, config, auth_provider,
                   next_queue, gone, welcomed, cap_open, lock_vars>>

ApplySomeModeChange ==
    \E k \in DOMAIN channels, change \in ModeRecords : ApplyModeChange(k, change)

SendSomeNames ==
    \E id \in DOMAIN clients, name \in {ChanX, ChanUX, ChanY} : SendNames(id, name)

NextModes ==
    \/ ApplySomeModeChange
    \/ SendSomeNames

SpecModes == InitModes /\ [][NextModes]_vars

----------------------------------------------------------------------------
(* Mode strings: ChannelQuery run on the mode string and the parameters of a
   MODE command, and the records applied to the channel in order *)

\* the longest mode string of the inputs
MaxModeLen == 3

\* the eight letters of the boolean channel modes: a i m n q p s t
SimpleLetters == {97, 105, 109, 110, 113, 112, 115, 116}

\* the letters that take a parameter: k l b e I o v
ParamLetters == {107, 108, 98, 101, 73, 111, 118}

\* a letter that is no mode: x
NoModeLetter == 120

\* the byte sequences of the given length over the alphabet
RECURSIVE Strings(_, _)
Strings(alphabet, n) ==
    IF n = 0 THEN {<<>>}
    ELSE {<<c>> \o s : c \in alphabet, s \in Strings(alphabet, n - 1)}

\* the mode strings of boolean modes: a sign run, a letter, a sign run, and
\* possibly a second letter
SignRuns == {<<>>, <<43>>, <<45>>, <<43, 45>>, <<45, 43>>}

SimpleModeStrings ==
    {s1 \o <<l1>> \o s2 \o l2 :
        s1 \in SignRuns, l1 \in SimpleLetters, s2 \in SignRuns,
        l2 \in {<<>>, <<115>>, <<109>>}}

\* the mode strings of modes with a parameter: every string of one byte, the
\* strings of two bytes over + - l k b o and the letter that is no mode, and
\* the strings of MaxModeLen bytes without o
ParamModeStrings ==
    Strings({43, 45} \cup ParamLetters \cup {NoModeLetter}, 1)
      \cup Strings({43, 45, 108, 107, 98, 111, NoModeLetter}, 2)
      \cup Strings({43, 45, 108, 107, 98, NoModeLetter}, MaxModeLen)

\* the parameters that follow the mode string
ModeParams == {<<>>, <<LimitTwo>>, <<LimitTwo, KeyK>>}

\* the MODE message of a channel, a mode string and its parameters
ModeMsg(modes, params) == Msg("MODE", <<ChanX, modes>> \o params)

\* the call of handle_message with a MODE message
ModeCall(id, modes, params) ==
    MakeCall("handle_message", id, None, SampleConfig, "dummy", ModeMsg(modes, params))

\* the mode string and the mode parameters of a MODE message
ModesOf(msg) == msg.params[2]
ModeParamsOf(msg) == SubSeq(msg.params, 3, Len(msg.params))

\* the loop of MODE over the records of the query: every Ok record is handed
\* to apply_mode_change, a refused or failed record changes nothing and the
\* loop goes on
RECURSIVE ApplyRecords(_, _, _)
ApplyRecords(chan, changes, nick_of) ==
    IF changes = <<>> THEN chan
    ELSE ApplyRecords(IF Head(changes).ok
                      THEN apply_mode_change(chan, Head(changes), nick_of).chan
                      ELSE chan,
                      Tail(changes), nick_of)

\* the channel after MODE with this mode string and these parameters
ModeApplied(chan, modes, params, nick_of) ==
    ApplyRecords(chan, ChannelQuery(modes, TRUE, params), nick_of)

\* the task holds the lock for a MODE message
ModePending(t) == pc[t] = "running" /\ call[t].msg.command = "MODE"

\* a task receives a MODE message of the creator and takes the lock
IssueMode(t, modes, params) ==
    /\ pc[t] = "idle"
    /\ mutex = None
    /\ mutex' = Some(t)
    /\ pc' = [pc EXCEPT ![t] = "running"]
    /\ call' = [call EXCEPT ![t] = ModeCall(0, modes, params)]
    /\ sent' = NoLines
    /\ UNCHANGED <<clients, slab_len, slab_free, nicks, channels, config, auth_provider,
                   next_queue, gone, welcomed, cap_open, panicked>>

\* the MODE message is handled: the records of the query are applied to the
\* channel, and the lock is released
RunMode(t) ==
    /\ ModePending(t)
    /\ LET msg == call[t].msg
           k == u(msg.params[1])
       IN  channels' = [channels EXCEPT
                           ![k] = ModeApplied(@, ModesOf(msg), ModeParamsOf(msg),
                                              NickOfMembers(@))]
    /\ mutex' = None
    /\ pc' = [pc EXCEPT ![t] = "idle"]
    /\ call' = [call EXCEPT ![t] = NoCall]
    /\ sent' = NoLines
    /\ UNCHANGED <<clients, slab_len, slab_free, nicks, config, auth_provider,
                   next_queue, gone, welcomed, cap_open, panicked>>

IssueSimpleMode == \E t \in Tasks, modes \in SimpleModeStrings : IssueMode(t, modes, <<>>)

IssueParamMode ==
    \E t \in Tasks, modes \in ParamModeStrings, params \in ModeParams :
       IssueMode(t, modes, params)

RunSomeMode == \E t \in Tasks : RunMode(t)

\* MODE with strings of boolean modes
NextSimpleMode ==
    \/ IssueSimpleMode
    \/ RunSomeMode

SpecSimpleMode == InitModes /\ [][NextSimpleMode]_vars

\* MODE with strings of modes that take parameters
NextParamMode ==
    \/ IssueParamMode
    \/ RunSomeMode

SpecParamMode == InitModes /\ [][NextParamMode]_vars

----------------------------------------------------------------------------
(* Talk policy: messages to a channel whose modes and member modes change *)

\* the records that change who may talk
TalkModeRecords ==
    {Change(t, v, None) : t \in {"Moderated", "NoPrivMsgFromOutside"}, v \in BOOLEAN}
      \cup {Change(t, v, p) : t \in {"ChangeOperator", "ChangeVoice"}, v \in BOOLEAN,
                              p \in {NickLa, NickLb}}

\* the messages of the three clients to the channel
ModeTalkMsgs ==
    {Msg("PRIVMSG", <<ChanX, "hi">>), Msg("NOTICE", <<ChanX, "hi">>),
     Msg("TAGMSG", <<ChanX>>)}

ApplyTalkModeChange ==
    \E k \in DOMAIN channels, change \in TalkModeRecords : ApplyModeChange(k, change)

HandleModeTalkMessage ==
    \E id \in DOMAIN clients, msg \in ModeTalkMsgs : handle_message(id, msg, TRUE)
          /\ UNCHANGED lock_vars

NextModeTalk ==
    \/ ApplyTalkModeChange
    \/ HandleModeTalkMessage

SpecModeTalk == InitModes /\ [][NextModeTalk]_vars

----------------------------------------------------------------------------
(* rehash with configurations that change every field *)

RehashConfigs == {SampleConfig, OtherConfig, NoMotdConfig}

RehashAny ==
    \E cfg \in RehashConfigs, provider \in Providers :
       rehash(cfg, provider) /\ UNCHANGED lock_vars

HandleRehashMessage ==
    \E id \in Ids, msg \in LockMsgs : handle_message(id, msg, TRUE)
          /\ UNCHANGED lock_vars

\* two connections that register and join while the server is rehashed
NextRehash ==
    \/ (next_queue < PairConns /\ PeerJoined)
    \/ RehashAny
    \/ HandleRehashMessage

SpecRehash == Init /\ [][NextRehash]_vars

----------------------------------------------------------------------------
(* The checks of handle_message: messages that fail more than one of them *)

\* the messages of a registration with message-tags and labels, and messages
\* that fail two checks at once: an unknown command with too many tag bytes,
\* TAGMSG and AUTHENTICATE without a parameter, USER, WHOIS and PRIVMSG
\* without enough parameters, and an unknown command
OrderMsgs ==
    {Msg("NICK", <<NickLa>>), Msg("NICK", <<NickLb>>),
     Msg("USER", <<"u", "0", "*", "r">>),
     Msg("CAP", <<"REQ", <<Cap("message-tags"), Cap("labeled-response")>>>>),
     Msg("CAP", <<"END">>),
     [Msg("FOO", <<>>) EXCEPT !.tags_len = MAX_TAG_DATA_LENGTH + 1],
     [Msg("FOO", <<>>) EXCEPT !.label = "l1"],
     Msg("TAGMSG", <<>>), Msg("AUTHENTICATE", <<>>),
     Msg("USER", <<>>), Msg("WHOIS", <<>>), Msg("PRIVMSG", <<NickLa>>),
     Msg("PING", <<"x">>)}

HandleOrderMessage ==
    \E id \in Ids, msg \in OrderMsgs : handle_message(id, msg, TRUE)
          /\ UNCHANGED lock_vars

\* two connections whose messages fail the checks before dispatch
NextOrder ==
    \/ (next_queue < PairConns /\ PeerJoined)
    \/ HandleOrderMessage

SpecOrder == Init /\ [][NextOrder]_vars

----------------------------------------------------------------------------
(* Connection tasks and their login timers: a task hands its connection to
   peer_joined, keeps the id it was given, and calls remove_if_unregistered
   with that id when the login timeout has passed, whether the connection is
   still open or not *)

\* what a task keeps of its connection: the id peer_joined returned and the
\* queue it handed in
Connection(id, queue) ==
    [op |-> "remove_if_unregistered", id |-> id, err |-> None, cfg |-> SampleConfig,
     provider |-> "dummy", msg |-> NoCall.msg, queue |-> queue]

\* a task accepts a connection and starts its login timer
Accept(t) ==
    /\ pc[t] = "idle"
    /\ next_queue < MaxConns
    /\ peer_joined
    /\ pc' = [pc EXCEPT ![t] = "timer"]
    /\ call' = [call EXCEPT ![t] = Connection(SlabNextKey, next_queue)]
    /\ UNCHANGED mutex

\* a task handles a message of its open connection
Serve(t, msg) ==
    /\ pc[t] \in {"timer", "open"}
    /\ handle_message(call[t].id, msg, TRUE)
    /\ UNCHANGED lock_vars

\* the connection of a task ends; its login timer, if it has not fired, goes on
Close(t) ==
    /\ pc[t] \in {"timer", "open"}
    /\ peer_quit(call[t].id, None)
    /\ pc' = [pc EXCEPT ![t] = IF pc[t] = "timer" THEN "late" ELSE "idle"]
    /\ UNCHANGED <<mutex, call>>

\* the login timer of a task fires
Timeout(t) ==
    /\ pc[t] \in {"timer", "late"}
    /\ remove_if_unregistered(call[t].id)
    /\ pc' = [pc EXCEPT ![t] = IF pc[t] = "timer" THEN "open" ELSE "idle"]
    /\ UNCHANGED <<mutex, call>>

AcceptSome == \E t \in Tasks : Accept(t)

ServeSome == \E t \in Tasks, msg \in LockMsgs : Serve(t, msg)

CloseSome == \E t \in Tasks : Close(t)

TimeoutSome == \E t \in Tasks : Timeout(t)

NextLate ==
    \/ AcceptSome
    \/ ServeSome
    \/ CloseSome
    \/ TimeoutSome

SpecLate == Init /\ [][NextLate]_vars

----------------------------------------------------------------------------
(* Properties *)

\* some line with this command is among the lines just enqueued on queue q
Got(q, command) == \E i \in DOMAIN sent[q] : sent[q][i].command = command

\* the number of lines with this command just enqueued on queue q
CountOf(lines, command) == Cardinality({i \in DOMAIN lines : lines[i].command = command})

NoEmptyChannel ==
    \A k \in DOMAIN channels : DOMAIN channels[k].members # {}

\* the last member of the only channel has just parted or been kicked
LastMemberLeft ==
    /\ channels = EmptyMap
    /\ \E q \in Queues : Got(q, "PART") \/ Got(q, "KICK")

\* C3: every id in the members of a channel is the id of a client in clients,
\* that client is registered, and no index of clients[] by a member has failed
MembersAreRegisteredClients ==
    /\ \A k \in DOMAIN channels : \A id \in DOMAIN channels[k].members :
          id \in DOMAIN clients /\ is_registered(clients[id])
    /\ ~panicked

\* a channel with two members, the second of which has just joined
TwoMembersAfterJoin ==
    /\ \E k \in DOMAIN channels : Cardinality(DOMAIN channels[k].members) = 2
    /\ \E q \in Queues : Got(q, "RPL_NAMREPLY")

\* the client is a member of some channel
InChannel(id) == \E k \in DOMAIN channels : id \in DOMAIN channels[k].members

\* the other clients that share at least one channel with the client
Sharing(id) ==
    {j \in (DOMAIN clients) \ {id} :
        \E k \in DOMAIN channels :
           id \in DOMAIN channels[k].members /\ j \in DOMAIN channels[k].members}

\* C4: when a client that is a member of one or more channels is removed by
\* peer_quit or by its own QUIT, every other client sharing at least one
\* channel with it receives exactly one QUIT message, however many channels
\* they share; the clients sharing none, and the quitter, receive no QUIT
QuitReachesSharersOnce ==
    [][\A id \in DOMAIN clients :
          (id \notin DOMAIN clients' /\ InChannel(id)) =>
             /\ \A j \in (DOMAIN clients) \ {id} :
                   CountOf(sent'[clients[j].queue], "QUIT")
                      = IF j \in Sharing(id) THEN 1 ELSE 0
             /\ CountOf(sent'[clients[id].queue], "QUIT") = 0]_vars

\* a client in two channels, neither of which it created, has just received
\* the QUIT of the client that created them
QuitOfSharerOfTwo ==
    \E id \in DOMAIN clients :
       /\ CountOf(sent[clients[id].queue], "QUIT") = 1
       /\ Cardinality({k \in DOMAIN channels : id \in DOMAIN channels[k].members}) = 2
       /\ \A k \in DOMAIN channels :
             id \in DOMAIN channels[k].members => ~channels[k].members[id].creator

\* C5: after peer_quit(id) on an existing client, id is absent from clients
\* and from the members of every channel, its nick is absent from nicks,
\* every channel left without members is deleted, and the membership and the
\* member modes of the other clients in the surviving channels are unchanged;
\* peer_quit on an id that is not in clients changes nothing and sends nothing
PeerQuitCascade ==
    [][\A id \in Ids, err \in Errs :
          ((id \in DOMAIN clients => id \notin DOMAIN clients') /\ peer_quit(id, err)) =>
             IF id \in DOMAIN clients
             THEN /\ \A k \in DOMAIN channels' : id \notin DOMAIN channels'[k].members
                  /\ \A j \in (DOMAIN clients) \ {id} :
                        j \in DOMAIN clients' /\ clients'[j] = clients[j]
                  /\ u(clients[id].nick) \notin DOMAIN nicks'
                  /\ DOMAIN channels'
                        = {k \in DOMAIN channels : (DOMAIN channels[k].members) \ {id} # {}}
                  /\ \A k \in DOMAIN channels' :
                        /\ DOMAIN channels'[k].members = (DOMAIN channels[k].members) \ {id}
                        /\ \A j \in DOMAIN channels'[k].members :
                              channels'[k].members[j] = channels[k].members[j]
             ELSE /\ UNCHANGED <<clients, slab_len, slab_free, nicks, channels, config,
                                 auth_provider>>
                  /\ sent' = NoLines]_vars

\* peer_quit has just removed a client: its queue got the ERROR of peer_quit,
\* and a channel it created survives with the other client, who got its QUIT
PeerQuitLeftSharedChannel ==
    /\ \E q \in gone : \E i \in DOMAIN sent[q] :
          sent[q][i].command = "ERROR" /\ sent[q][i].param \in {CLOSING_LINK, "io error"}
    /\ \E id \in DOMAIN clients :
          /\ Got(clients[id].queue, "QUIT")
          /\ \E k \in DOMAIN channels :
                id \in DOMAIN channels[k].members /\ ~channels[k].members[id].creator

\* the last line enqueued is the ERROR line
LastIsError(lines) == lines # <<>> /\ lines[Len(lines)].command = "ERROR"

\* C6: once a client has been removed (by peer_quit, QUIT or
\* remove_if_unregistered), no later operation enqueues a message on its
\* queue; for peer_quit and QUIT the ERROR line is the last one enqueued on it
NothingAfterRemoval ==
    [][/\ \A q \in gone : sent'[q] = <<>>
       /\ \A id \in DOMAIN clients :
             id \notin DOMAIN clients' =>
                /\ \A err \in Errs :
                      peer_quit(id, err) => LastIsError(sent'[clients[id].queue])
                /\ \A msg \in {m \in ChanMsgs : m.command = "QUIT"} :
                      handle_message(id, msg, TRUE) => LastIsError(sent'[clients[id].queue])]_vars

\* a client was removed earlier, and the other client has just been answered
AnswerAfterRemoval ==
    /\ gone # {}
    /\ \E id \in DOMAIN clients :
          is_registered(clients[id]) /\ Got(clients[id].queue, "JOIN")

\* the nick, the names and the CAP gate of a registered client
RegisteredGatesKept ==
    \A id \in DOMAIN clients :
       is_registered(clients[id]) =>
          /\ clients[id].nick # EmptyStr
          /\ clients[id].user # ""
          /\ clients[id].real # ""
          /\ ~clients[id].state.cap_pending

\* the client is in clients before and after the step, and the step makes it
\* registered
BecomesRegistered(id) ==
    /\ id \in DOMAIN clients /\ ~is_registered(clients[id])
    /\ id \in DOMAIN clients' /\ is_registered(clients'[id])

WelcomeSuite ==
    {"RPL_WELCOME", "RPL_YOURHOST", "RPL_CREATED", "RPL_MYINFO", "RPL_ISUPPORT",
     "RPL_LUSERCLIENT", "RPL_LUSERUNKNOWN", "RPL_LUSERCHANNELS", "RPL_LUSERME",
     "RPL_MOTDSTART", "RPL_MOTD", "RPL_ENDOFMOTD", "ERR_NOMOTD"}

\* RPL_WELCOME is in the lines, and no line of the welcome suite is before it
WelcomeLeadsSuite(lines) ==
    \E i \in DOMAIN lines :
       /\ lines[i].command = "RPL_WELCOME"
       /\ \A j \in 1 .. (i - 1) : lines[j].command \notin WelcomeSuite

\* a step enqueues one RPL_WELCOME on the queue of a client it makes
\* registered, and none on any other queue
WelcomeOnlyOnRegistering ==
    /\ \A id \in DOMAIN clients :
          CountOf(sent'[clients[id].queue], "RPL_WELCOME")
             = IF BecomesRegistered(id) THEN 1 ELSE 0
    /\ \A q \in Queues :
          (\A id \in DOMAIN clients : clients[id].queue # q)
             => CountOf(sent'[q], "RPL_WELCOME") = 0

UserPassMsgs == {m \in RegMsgs : m.command \in {"USER", "PASS"}}

NickMsgs == {m \in RegMsgs : m.command = "NICK"}

CapReqMsgs == {m \in RegMsgs : m.command = "CAP" /\ m.params[1] = "REQ"}

\* C10: CAP REQ with a list holding an unsupported capability replies NAK and
\* leaves the capabilities of the client unchanged; CAP REQ whose tokens are
\* all supported replies ACK and applies every requested token
CapReqAllOrNothing ==
    \A id \in DOMAIN clients, msg \in CapReqMsgs, available \in BOOLEAN :
       LET o == HandleOutcome(id, msg, available)
           tokens == msg.params[2]
           before == clients[id].capabilities
           after == o.w.clients[id].capabilities
           named == {tokens[i].name : i \in DOMAIN tokens}
       IN  IF \E i \in DOMAIN tokens : tokens[i].name \notin SupportedCaps
           THEN /\ CountOf(o.rb, "CAP NAK") = 1
                /\ CountOf(o.rb, "CAP ACK") = 0
                /\ after = before
           ELSE /\ CountOf(o.rb, "CAP ACK") = 1
                /\ CountOf(o.rb, "CAP NAK") = 0
                /\ \A i \in DOMAIN tokens : (tokens[i].name \in after) = tokens[i].on
                /\ after \ named = before \ named

\* a client holding a capability it was granted has just been refused a list
\* with an unsupported token
NakAfterAck ==
    \E id \in DOMAIN clients :
       /\ "labeled-response" \in clients[id].capabilities
       /\ "sasl" \notin clients[id].capabilities
       /\ Got(clients[id].queue, "CAP NAK")

\* C11: an unregistered client whose CAP LS or CAP REQ was answered (ACK or
\* NAK) and that has not sent CAP END is not registered and has received no
\* welcome suite, whatever NICK, USER and PASS it has sent since
CapOpenBlocksRegistration ==
    \A id \in DOMAIN clients :
       clients[id].queue \in cap_open =>
          /\ ~is_registered(clients[id])
          /\ welcomed[clients[id].queue] = 0

\* the handle_message call of this step has answered the client with
\* RPL_SASLSUCCESS: the exchange of the client has succeeded
SaslSucceeds(id) ==
    /\ id \in DOMAIN clients
    /\ CountOf(sent'[clients[id].queue], "RPL_SASLSUCCESS") > 0

\* C12: when the exchange of client c succeeds the account identity is set on
\* c itself, and the identity and the SASL sub-state of every other client are
\* unchanged; the identity of a client is set only in a step in which the
\* exchange of that same client succeeds
IdentityOfTheAuthenticated ==
    [][/\ \A id \in Ids :
             SaslSucceeds(id) =>
                /\ clients'[id].identity # None
                /\ \A j \in (DOMAIN clients) \ {id} :
                      /\ clients'[j].identity = clients[j].identity
                      /\ clients'[j].auth_id = clients[j].auth_id
                      /\ clients'[j].auth_buffer = clients[j].auth_buffer
       /\ \A j \in DOMAIN clients :
             (clients[j].identity = None /\ clients'[j].identity # None)
                => SaslSucceeds(j)]_vars

\* C13: in the step in which the exchange of client c succeeds, one ACCOUNT
\* line is enqueued on each other client that shares a channel with c and has
\* account-notify, and none on a client that lacks account-notify or shares no
\* channel with c, on c itself, or on a queue without a client
AccountNotifiesSharers ==
    [][\A id \in Ids :
          SaslSucceeds(id) =>
             /\ \A j \in (DOMAIN clients) \ {id} :
                   CountOf(sent'[clients[j].queue], "ACCOUNT")
                      = IF j \in Sharing(id)
                           /\ "account-notify" \in clients[j].capabilities
                        THEN 1 ELSE 0
             /\ CountOf(sent'[clients[id].queue], "ACCOUNT") = 0
             /\ \A q \in Queues :
                   (\A j \in DOMAIN clients : clients[j].queue # q)
                      => CountOf(sent'[q], "ACCOUNT") = 0]_vars

\* the exchange of a member of a channel has just succeeded, and the other
\* member, which has account-notify, has been told
AccountToldToSharer ==
    \E id, j \in DOMAIN clients :
       /\ id # j
       /\ Got(clients[id].queue, "RPL_SASLSUCCESS")
       /\ j \in Sharing(id)
       /\ Got(clients[j].queue, "ACCOUNT")

\* AUTHENTICATE *, and the AUTHENTICATE messages of the registration
AbortMsg == Msg("AUTHENTICATE", <<"*">>)

AuthenticateMsgs == {m \in RegMsgs : m.command = "AUTHENTICATE"}

\* AUTHENTICATE * is answered ERR_SASLABORTED first (the welcome suite follows
\* when the abort completes the registration) and leaves the client without
\* mechanism, buffer or identity
AbortResets(id, available) ==
    LET o == HandleOutcome(id, AbortMsg, available)
    IN  /\ o.rb # <<>>
        /\ o.rb[1] = ServerLine("ERR_SASLABORTED", "")
        /\ CountOf(o.rb, "ERR_SASLABORTED") = 1
        /\ o.w.clients[id].auth_id = None
        /\ o.w.clients[id].auth_buffer = <<>>
        /\ o.w.clients[id].identity = None

\* an AUTHENTICATE is treated as a mechanism selection: the answer is the one
\* of start_auth, and nothing is pushed on the buffer
SelectsMechanism(id, msg, available) ==
    LET o == HandleOutcome(id, msg, available)
        started == start_auth(auth_provider, msg.params[1])
    IN  /\ o.w.clients[id].auth_buffer = <<>>
        /\ IF started.ok
           THEN /\ o.rb = <<ServerLine("AUTHENTICATE", "+")>>
                /\ o.w.clients[id].auth_id = Some(started.id)
           ELSE /\ o.rb \in {<<ServerLine("ERR_SASLFAIL", "")>>,
                             <<ServerLine("RPL_SASLMECHS", "")>>}
                /\ o.w.clients[id].auth_id = None

Mechanisms == {"PLAIN", "EXTERNAL"}

Responses == {<<>>, <<"GOOD">>, <<"FULLGOOD">>, <<"BAD">>}

\* C15: whichever provider the state holds, whenever is_available() is false
\* start_auth and next_challenge return an error: no exchange is started and
\* no account name is returned
UnavailableProviderRefuses ==
    \A available \in BOOLEAN :
       ~is_available(auth_provider, available) =>
          /\ \A mechanism \in Mechanisms : ~start_auth(auth_provider, mechanism).ok
          /\ \A response \in Responses :
                /\ ~next_challenge(auth_provider, available, response).ok
                /\ next_challenge(auth_provider, available, response).user = None

\* every message the clients of the registration send
AllRegMsgs == RegMsgs \cup GateMsgs \cup LongNickMsgs

\* C16: for a client the command does not remove, handle_message returns
\* points_of(command) when the dispatched handler succeeds and twice that when
\* it fails; a command rejected before dispatch returns 3 for a tag blob too
\* long, 1 for an unknown command or too few parameters, and 2 at the
\* capability gate or the registration gate
PointsReturned ==
    \A id \in DOMAIN clients, msg \in AllRegMsgs, available \in BOOLEAN :
       LET o == HandleOutcome(id, msg, available)
           client == clients[id]
           res == handle_message_inner(World(clients, nicks, channels), id, <<>>, msg,
                                       config, auth_provider, available)
       IN  IF msg.tags_len > MAX_TAG_DATA_LENGTH
           THEN ~o.dispatched /\ o.ret = Some(3)
           ELSE IF msg.command \notin Commands
           THEN ~o.dispatched /\ o.ret = Some(1)
           ELSE IF ~is_capable_of(client.capabilities, msg.command)
           THEN ~o.dispatched /\ o.ret = Some(2)
           ELSE IF ~has_enough_params(msg)
           THEN ~o.dispatched /\ o.ret = Some(1)
           ELSE IF ~can_issue_command(client, msg.command, Param(msg, 0))
           THEN ~o.dispatched /\ o.ret = Some(2)
           ELSE /\ o.dispatched
                /\ id \in DOMAIN o.w.clients =>
                      o.ret = Some(IF res.ok THEN points_of(msg.command)
                                   ELSE 2 * points_of(msg.command))

\* a client has just been refused a nickname by the handler, at twice the
\* cost of NICK, after another was refused before dispatch
HandlerHasFailed ==
    \E id \in DOMAIN clients :
       /\ Got(clients[id].queue, "ERR_ERRONEUSNICKNAME")
       /\ HandleOutcome(id, Msg("NICK", <<NickBad>>), TRUE).ret = Some(8)
       /\ HandleOutcome(id, Msg("NICK", <<>>), TRUE).ret = Some(1)

\* the sizes of tag blob around the limit
TagSizes == (MAX_TAG_DATA_LENGTH - 1) .. (MAX_TAG_DATA_LENGTH + 2)

\* C17: a message whose tag blob is at most 4094 bytes passes the tag-size
\* check and is handled as the message without tags is; one of 4095 bytes or
\* more is answered ERR_INPUTTOOLONG, the command is not dispatched, and
\* clients, nicks and channels do not change
TagLimit ==
    \A id \in DOMAIN clients, msg \in RegMsgs, n \in TagSizes, available \in BOOLEAN :
       LET o == HandleOutcome(id, [msg EXCEPT !.tags_len = n], available)
       IN  IF n <= MAX_TAG_DATA_LENGTH
           THEN /\ CountOf(o.rb, "ERR_INPUTTOOLONG") = 0
                /\ o = HandleOutcome(id, msg, available)
           ELSE /\ CountOf(o.rb, "ERR_INPUTTOOLONG") = 1
                /\ ~o.dispatched
                /\ o.w.clients = clients
                /\ o.w.nicks = nicks
                /\ o.w.channels = channels

\* a client that took a nickname sent with a tag blob of 4094 bytes has just
\* been refused a message with one of 4095 bytes
TagBlobRefused ==
    \E id \in DOMAIN clients :
       /\ clients[id].nick = NickLb
       /\ Got(clients[id].queue, "ERR_INPUTTOOLONG")

\* the bytes a nickname may hold: ASCII letters, digits, and
\* [ ] \ ` _ ^ { | }
NickChars ==
    (65 .. 90) \cup (97 .. 122) \cup (48 .. 57)
      \cup {91, 93, 92, 96, 95, 94, 123, 124, 125}

\* non-empty, at most max bytes, only bytes of NickChars, no digit first
NickRule(s, max) ==
    /\ s # <<>>
    /\ Len(s) <= max
    /\ \A i \in DOMAIN s : s[i] \in NickChars
    /\ s[1] \notin 48 .. 57

\* the bytes tried: ASCII, and two bytes of a multi-byte character
SampleBytes == (0 .. 127) \cup {195, 169}

\* the nicknames tried: the empty one, every byte alone, every byte after and
\* before a letter, and letters up to one byte over the default NICKLEN
NickSamples ==
    {<<>>} \cup {<<b>> : b \in SampleBytes}
      \cup {<<97, b>> : b \in SampleBytes} \cup {<<b, 97>> : b \in SampleBytes}
      \cup {SubSeq(Nick10, 1, n) : n \in 1 .. Len(Nick10)}

\* the limits tried: none to one over the default NICKLEN
NickLimits == 0 .. Len(Nick10)

\* is_valid_nickname accepts exactly the nicknames of the rule
NickRuleDecided ==
    \A s \in NickSamples, max \in NickLimits : is_valid_nickname(s, max) <=> NickRule(s, max)

\* C18: is_valid_nickname(s, max) holds iff s is non-empty, at most max bytes
\* long, made of ASCII letters, digits and [ ] \ ` _ ^ { | } only, and does
\* not begin with a digit; NICK with a nickname of exactly NICKLEN bytes is
\* accepted, with one of NICKLEN+1 bytes it is refused, and the nickname of
\* every client satisfies the rule
NickRuleKept ==
    /\ NickRuleDecided
    /\ Len(Nick9) = config.nicklen /\ Len(Nick10) = config.nicklen + 1
    /\ \A id \in DOMAIN clients :
          /\ clients[id].nick # <<>> => NickRule(clients[id].nick, config.nicklen)
          /\ LET o == HandleOutcome(id, Msg("NICK", <<Nick10>>), TRUE)
             IN  /\ CountOf(o.rb, "ERR_ERRONEUSNICKNAME") = 1
                 /\ o.w.clients[id].nick = clients[id].nick
          /\ LET o == HandleOutcome(id, Msg("NICK", <<Nick9>>), TRUE)
             IN  /\ CountOf(o.rb, "ERR_ERRONEUSNICKNAME") = 0
                 /\ u(Nick9) \notin DOMAIN nicks => o.w.clients[id].nick = Nick9

\* a client holds a nickname of exactly NICKLEN bytes, after one of NICKLEN+1
\* bytes was refused
NicklenNickTaken ==
    \E id \in DOMAIN clients :
       /\ clients[id].nick = Nick9
       /\ Len(clients[id].nick) = config.nicklen

\* the members of a channel that hold the creator flag
Creators(chan) == {m \in DOMAIN chan.members : chan.members[m].creator}

\* a sample of mode changes: every flag, the key, the limit, the three masks
\* and the member modes of two nicks, each set and unset
ModeChangeSamples ==
    {Change(t, v, p) :
        t \in {"Anonymous", "InviteOnly", "Moderated", "NoPrivMsgFromOutside", "Quiet",
               "Secret", "TopicRestricted", "Key", "UserLimit", "ChangeBan",
               "ChangeException", "ChangeInvitation", "ChangeOperator", "ChangeVoice"},
        v \in BOOLEAN, p \in {NickLa, NickLb}}

\* no sampled mode change applied to the channel alters the set of members or
\* the creator flag of any of them
ModeChangeKeepsCreator(chan) ==
    \A change \in ModeChangeSamples :
       LET after == apply_mode_change(chan, change,
                                      [m \in DOMAIN chan.members |-> clients[m].nick]).chan
       IN  /\ DOMAIN after.members = DOMAIN chan.members
           /\ Creators(after) = Creators(chan)

\* a step gives the creator flag only to the sole member of a channel that
\* did not exist before it, whose JOIN has just been echoed to it and who is
\* operator too; a member added to an existing channel has no member mode, and
\* a member that stays keeps the absence of the flag
CreatorOnlyAtCreation ==
    \A k \in DOMAIN channels' : \A m \in DOMAIN channels'[k].members :
       LET now == channels'[k].members[m]
       IN  IF k \in DOMAIN channels /\ m \in DOMAIN channels[k].members
           THEN now.creator =>
                   /\ channels[k].members[m].creator
                   /\ clients'[m].queue = clients[m].queue
           ELSE IF k \in DOMAIN channels
           THEN now = MemberModes(FALSE, FALSE, FALSE)
           ELSE /\ now = MemberModes(TRUE, TRUE, FALSE)
                /\ DOMAIN channels'[k].members = {m}
                /\ \E i \in DOMAIN sent'[clients'[m].queue] :
                      sent'[clients'[m].queue][i].command = "JOIN"

\* C19: every channel has at most one member with creator set, that member is
\* the client whose JOIN created the channel (it got creator and operator then,
\* later joiners get no member mode), and no mode change, part and rejoin or
\* other operation sets creator on another member
SingleCreator ==
    /\ [](\A k \in DOMAIN channels :
             /\ Cardinality(Creators(channels[k])) <= 1
             /\ ModeChangeKeepsCreator(channels[k]))
    /\ [][CreatorOnlyAtCreation]_vars

\* a channel with two members and no creator: its creator parted and joined
\* it again while the other member kept the channel alive
CreatorRejoined ==
    \E k \in DOMAIN channels :
       /\ Cardinality(DOMAIN channels[k].members) = 2
       /\ Creators(channels[k]) = {}
       /\ \E q \in Queues : Got(q, "RPL_NAMREPLY")

\* C20: rehash leaves clients, nicks and channels exactly as they were: a step
\* of rehash, and any step that changes the configuration or the provider,
\* removes no client, changes no client's registration, nick, capabilities or
\* memberships, and creates, deletes or modifies no channel
RehashKeepsClientsAndChannels ==
    [][/\ (config' # config \/ auth_provider' # auth_provider)
             => UNCHANGED <<clients, nicks, channels>>
       /\ \A cfg \in Configs, provider \in Providers :
             rehash(cfg, provider) => UNCHANGED <<clients, nicks, channels>>]_vars

\* a password has been configured by a rehash while a client was still
\* registering and another was a member of a channel
RehashedAmongClients ==
    /\ config.password # None
    /\ sent = NoLines
    /\ channels # EmptyMap
    /\ \E id \in DOMAIN clients : ~is_registered(clients[id])

\* C21: remove_if_unregistered(id) removes the client iff it exists and is not
\* registered, leaving every other client as it was; when the client is
\* registered, clients, nicks and channels are unchanged, and when id is not in
\* clients the call changes nothing
RemovesOnlyTheUnregistered ==
    [][\A id \in Ids :
          remove_if_unregistered(id) =>
             IF id \in DOMAIN clients /\ ~is_registered(clients[id])
             THEN /\ DOMAIN clients' = (DOMAIN clients) \ {id}
                  /\ \A j \in DOMAIN clients' : clients'[j] = clients[j]
                  /\ channels' = channels
             ELSE UNCHANGED <<clients, nicks, channels, slab_free>>]_vars

\* the login timer has removed a client that had not registered, next to a
\* registered member of a channel: a slab entry is free and the operation
\* that freed it, or a rehash after it, sent no line
TimedOutNextToMember ==
    /\ slab_free # <<>>
    /\ sent = NoLines
    /\ Cardinality(DOMAIN clients) = 1
    /\ \E id \in DOMAIN clients : InChannel(id)

\* the messages of TalkMsgs that a client addresses to a channel
ChannelTalkMsgs ==
    {Msg("PRIVMSG", <<ChanX, "hi">>), Msg("PRIVMSG", <<ChanX, "">>),
     Msg("TAGMSG", <<ChanX>>), Msg("NOTICE", <<ChanY, "hi">>)}

\* handle_message has dispatched the message and its handler has succeeded
Succeeds(o, msg) == o.dispatched /\ o.ret = Some(points_of(msg.command))

\* the client has the capability the command requires of a recipient
MayReceive(client, command) ==
    command # "TAGMSG" \/ "message-tags" \in client.capabilities

\* C22: a successful PRIVMSG, NOTICE or TAGMSG to a channel enqueues exactly
\* one copy on every other member that has the capability the command
\* requires, nothing on any other queue, and gives the sender one copy, in its
\* replies, only if the sender negotiated echo-message
ChannelMessageFanOut ==
    \A id \in DOMAIN clients, msg \in ChannelTalkMsgs :
       LET o == HandleOutcome(id, msg, TRUE)
           k == u(Param(msg, 0))
       IN  Succeeds(o, msg) =>
              /\ k \in DOMAIN channels
              /\ \A j \in (DOMAIN clients) \ {id} :
                    IF j \in DOMAIN channels[k].members
                       /\ MayReceive(clients[j], msg.command)
                    THEN /\ Len(o.w.out[clients[j].queue]) = 1
                         /\ o.w.out[clients[j].queue][1].command = msg.command
                         /\ o.w.out[clients[j].queue][1].prefix = clients[id].nick
                    ELSE o.w.out[clients[j].queue] = <<>>
              /\ \A q \in Queues :
                    (\A j \in (DOMAIN clients) \ {id} : clients[j].queue # q)
                       => o.w.out[q] = <<>>
              /\ CountOf(o.rb, msg.command)
                    = IF "echo-message" \in clients[id].capabilities THEN 1 ELSE 0

\* a TAGMSG has gone to a channel of three members: the member without
\* message-tags got nothing, the sender and the other member one copy each
TagmsgSkippedAMember ==
    \E k \in DOMAIN channels :
       /\ Cardinality(DOMAIN channels[k].members) = 3
       /\ \E j \in DOMAIN channels[k].members :
             /\ "message-tags" \notin clients[j].capabilities
             /\ sent[clients[j].queue] = <<>>
             /\ \A m \in (DOMAIN channels[k].members) \ {j} :
                   CountOf(sent[clients[m].queue], "TAGMSG") = 1

\* the messages of TalkMsgs whose target is a channel or a nick that does
\* not exist in the state
TargetMissing(msg) ==
    /\ msg.command \in {"PRIVMSG", "NOTICE", "TAGMSG"}
    /\ Len(msg.params) >= 1
    /\ IF is_valid_channel_name(Param(msg, 0), config.channellen)
       THEN u(Param(msg, 0)) \notin DOMAIN channels
       ELSE ~\E j \in DOMAIN clients :
               is_registered(clients[j]) /\ u(clients[j].nick) = u(Param(msg, 0))

\* C23: a PRIVMSG, NOTICE or TAGMSG whose target does not exist, no
\* registered client with that nick or no channel with that name, is answered
\* with ERR_NOSUCHNICK and nothing is delivered to any client
MissingTargetIsNoSuchNick ==
    \A id \in DOMAIN clients, msg \in TalkMsgs :
       LET o == HandleOutcome(id, msg, TRUE)
       IN  (o.dispatched /\ TargetMissing(msg) /\ Param(msg, 1) # "") =>
              /\ CountOf(o.rb, "ERR_NOSUCHNICK") = 1
              /\ \A q \in Queues : o.w.out[q] = <<>>

\* C24: a successful SETNAME is delivered only to clients that negotiated
\* setname: no peer without it receives the SETNAME message, and each peer
\* with it that shares a channel with the originator receives it exactly once
SetnameOnlyToCapable ==
    \A id \in DOMAIN clients :
       LET msg == Msg("SETNAME", <<"new">>)
           o == HandleOutcome(id, msg, TRUE)
       IN  Succeeds(o, msg) =>
              \A j \in (DOMAIN clients) \ {id} :
                 CountOf(o.w.out[clients[j].queue], "SETNAME")
                    = IF j \in Sharing(id) /\ "setname" \in clients[j].capabilities
                      THEN 1 ELSE 0

\* the variables of StateInner and of its outbound queues
inner_vars ==
    <<clients, slab_len, slab_free, nicks, channels, config, auth_provider,
      next_queue, sent, gone, welcomed, cap_open, panicked>>

\* C25: handle_message, peer_joined, peer_quit, remove_if_unregistered and
\* rehash on one State are mutually exclusive: at most one task runs an
\* operation, it is the one that holds the lock, and every change of the
\* state or of the queues is one whole operation of the task holding the
\* lock, so that the state and the order of the lines on each queue are those
\* of the operations in the order in which they ran
OperationsExcludeEachOther ==
    /\ [](/\ Cardinality({t \in Tasks : pc[t] = "running"}) <= 1
          /\ \A t \in Tasks : pc[t] = "running" <=> mutex = Some(t))
    /\ [][inner_vars' # inner_vars =>
             \E t \in Tasks :
                /\ mutex = Some(t)
                /\ Performs(call[t])
                /\ mutex' = None
                /\ \A x \in Tasks \ {t} : pc'[x] = pc[x] /\ call'[x] = call[x]]_vars

\* a task runs handle_message for a registered client while the other task
\* waits for the lock with a call of its own
OneRunsOneWaits ==
    \E t, x \in Tasks :
       /\ pc[t] = "running" /\ call[t].op = "handle_message"
       /\ call[t].id \in DOMAIN clients /\ is_registered(clients[call[t].id])
       /\ pc[x] = "waiting" /\ call[x].op = "peer_quit" /\ call[x].id = call[t].id

\* handle_message has dispatched the message and its handler has failed:
\* twice the points of the command are charged
Fails(o, msg) == o.dispatched /\ o.ret = Some(2 * points_of(msg.command))

\* C26: whenever a dispatched command fails, at least one reply has been
\* queued to the issuing client, and no reply of the server is put on the
\* queue of any other client
FailureIsReported ==
    \A id \in DOMAIN clients, msg \in TalkMsgs :
       LET o == HandleOutcome(id, msg, TRUE)
       IN  Fails(o, msg) =>
              /\ o.rb # <<>>
              /\ \A q \in Queues \ {clients[id].queue} :
                    \A i \in DOMAIN o.w.out[q] : o.w.out[q][i].prefix # <<>>

\* C27: the names of a secret channel asked by a client that is not a member
\* reveal nothing: no RPL_NAMREPLY is sent, and the replies are those for a
\* channel name that does not exist
SecretNamesHidden ==
    \A id \in DOMAIN clients, name \in {ChanX, ChanUX} :
       LET w == World(clients, nicks, channels)
           k == u(name)
       IN  (k \in DOMAIN channels /\ channels[k].secret
              /\ id \notin DOMAIN channels[k].members) =>
              /\ CountOf(send_names(w, id, <<>>, name).rb, "RPL_NAMREPLY") = 0
              /\ u(ChanY) \notin DOMAIN channels
              /\ send_names(w, id, <<>>, name).rb = send_names(w, id, <<>>, ChanY).rb

\* the names of a secret channel have just been sent to one of its members
\* while another client is not a member of it
SecretNamesToMember ==
    \E k \in DOMAIN channels :
       /\ channels[k].secret
       /\ (DOMAIN clients) \ (DOMAIN channels[k].members) # {}
       /\ \E m \in DOMAIN channels[k].members : Got(clients[m].queue, "RPL_NAMREPLY")

\* C28: ChangeVoice(value, nick) sets the voice flag of the member with that
\* nick to value and leaves the operator and creator flags of every member
\* unchanged; ChangeOperator(value, nick) sets the operator flag of that
\* member and leaves voice unchanged; a nick that is not a member yields
\* ERR_USERNOTINCHANNEL and no change
MemberModeChanges ==
    \A k \in DOMAIN channels, value \in BOOLEAN, nick \in {NickLa, NickLb, NickLc, NickUnused} :
       LET chan == channels[k]
           named == {m \in DOMAIN chan.members : clients[m].nick = nick}
           voiced == apply_mode_change(chan, Change("ChangeVoice", value, nick),
                                       NickOfMembers(chan))
           opped == apply_mode_change(chan, Change("ChangeOperator", value, nick),
                                      NickOfMembers(chan))
       IN  IF named = {}
           THEN /\ ~voiced.ok /\ voiced.reply = "ERR_USERNOTINCHANNEL" /\ voiced.chan = chan
                /\ ~opped.ok /\ opped.reply = "ERR_USERNOTINCHANNEL" /\ opped.chan = chan
           ELSE /\ voiced.ok /\ opped.ok
                /\ \A m \in DOMAIN chan.members :
                      /\ voiced.chan.members[m].voice
                            = IF m \in named THEN value ELSE chan.members[m].voice
                      /\ voiced.chan.members[m].operator = chan.members[m].operator
                      /\ voiced.chan.members[m].creator = chan.members[m].creator
                      /\ opped.chan.members[m].operator
                            = IF m \in named THEN value ELSE chan.members[m].operator
                      /\ opped.chan.members[m].voice = chan.members[m].voice

\* every kind of mode change record, set and unset, with the parameters the
\* model uses
AllModeRecords ==
    ModeRecords
      \cup {Change(t, v, None) :
              t \in {"Anonymous", "InviteOnly", "Moderated", "NoPrivMsgFromOutside",
                     "Quiet", "Private", "Secret", "TopicRestricted"},
              v \in BOOLEAN}
      \cup {Change(t, v, p) :
              t \in {"ChangeBan", "ChangeException", "ChangeInvitation"},
              v \in BOOLEAN, p \in {NickLa, NickLc}}
      \cup {Change(t, FALSE, None) : t \in {"GetBans", "GetExceptions", "GetInvitations"}}
      \cup {Change("UserLimit", TRUE, <<51>>)}

\* C29: for every channel state and every mode change record, applying the
\* record twice leaves the channel as applying it once does, and the second
\* application reports no change
ModeChangeIdempotent ==
    \A k \in DOMAIN channels, change \in AllModeRecords :
       LET once == apply_mode_change(channels[k], change, NickOfMembers(channels[k]))
           twice == apply_mode_change(once.chan, change, NickOfMembers(once.chan))
       IN  /\ twice.chan = once.chan
           /\ ~twice.applied

\* a channel on which records have been applied: it is moderated, has a key
\* and a limit, and a mask is set
ModesHaveBeenSet ==
    \E k \in DOMAIN channels :
       /\ channels[k].moderated
       /\ channels[k].key # None
       /\ channels[k].user_limit # None
       /\ channels[k].ban_mask # {}

\* C30: apply_mode_change reports applied exactly when the channel after the
\* call differs from the channel before it, and a refused change (ERR_KEYSET,
\* ERR_USERNOTINCHANNEL) leaves the channel as it was
AppliedIffChanged ==
    \A k \in DOMAIN channels, change \in AllModeRecords :
       LET r == apply_mode_change(channels[k], change, NickOfMembers(channels[k]))
       IN  /\ r.applied <=> (r.chan # channels[k])
           /\ ~r.ok => /\ r.chan = channels[k]
                       /\ r.reply \in {"ERR_KEYSET", "ERR_USERNOTINCHANNEL"}

\* a channel that has a key, so that setting another key is refused, and on
\* which a member mode was changed: its creator is no longer operator
KeyedAndDeopped ==
    \E k \in DOMAIN channels :
       /\ channels[k].key = Some(KeyK)
       /\ \E m \in DOMAIN channels[k].members :
             /\ channels[k].members[m].creator
             /\ ~channels[k].members[m].operator
       /\ ~apply_mode_change(channels[k], Change("Key", TRUE, KeyL),
                             NickOfMembers(channels[k])).ok

\* the positions of the bytes of a mode string that are no sign, in order
LetterPositions(modes) ==
    LET letters == {i \in DOMAIN modes : modes[i] \notin {43, 45}}
        Before(i) == Cardinality({j \in letters : j < i})
    IN  [n \in 1 .. Cardinality(letters) |-> CHOOSE i \in letters : Before(i) = n - 1]

\* the sign in force at a position: that of the most recent '+' or '-' before
\* it, plus when there is none
SignAt(modes, i) ==
    LET signs == {j \in 1 .. (i - 1) : modes[j] \in {43, 45}}
    IN  signs = {} \/ modes[CHOOSE j \in signs : \A x \in signs : x <= j] = 43

\* ChannelModeChange::symbol read backwards: the record of a boolean mode letter
TypeOfSymbol(c) ==
    CASE c = 97 -> "Anonymous"
      [] c = 105 -> "InviteOnly"
      [] c = 109 -> "Moderated"
      [] c = 110 -> "NoPrivMsgFromOutside"
      [] c = 113 -> "Quiet"
      [] c = 112 -> "Private"
      [] c = 115 -> "Secret"
      [] c = 116 -> "TopicRestricted"

\* the records ChannelQuery yields for the MODE message a task holds
PendingRecords(t) ==
    ChannelQuery(ModesOf(call[t].msg), TRUE, ModeParamsOf(call[t].msg))

\* C31: in the mode string of a MODE message, each of the letters
\* a i m n q p s t is decoded into its boolean record with the sign of the
\* most recent '+' or '-' before it, plus when there is none, and none of
\* them yields an unknown-mode error
SimpleLettersDecoded ==
    \A t \in Tasks :
       ModePending(t) =>
          LET modes == ModesOf(call[t].msg)
              at == LetterPositions(modes)
              records == PendingRecords(t)
          IN  /\ Len(records) = Len(at)
              /\ \A n \in DOMAIN at :
                    modes[at[n]] \in SimpleLetters =>
                       /\ records[n].ok
                       /\ records[n].type = TypeOfSymbol(modes[at[n]])
                       /\ records[n].value = SignAt(modes, at[n])

\* the number of parameters the letters before the n-th letter ask for
AskedBefore(modes, at, n) ==
    Cardinality({j \in 1 .. (n - 1) : modes[at[j]] \in ParamLetters})

\* the letters of the mode string that are a limit letter: l
LimitLetters(modes, at) == {n \in DOMAIN at : modes[at[n]] = 108}

\* the task has just handled the MODE message it held
ModeHandled(t) == ModePending(t) /\ pc'[t] = "idle"

\* C32: a '+l' with no parameter left for it is rejected with an error record
\* and the user limit of the channel stays as it was
PlusLimitNeedsParam ==
    [][\A t \in Tasks :
          ModeHandled(t) =>
             LET msg == call[t].msg
                 modes == ModesOf(msg)
                 at == LetterPositions(modes)
                 k == u(msg.params[1])
             IN  \A n \in LimitLetters(modes, at) :
                    (/\ LimitLetters(modes, at) = {n}
                     /\ SignAt(modes, at[n])
                     /\ AskedBefore(modes, at, n) >= Len(ModeParamsOf(msg)))
                      => /\ ~PendingRecords(t)[n].ok
                         /\ channels'[k].user_limit = channels[k].user_limit]_vars

\* C40: a '-l' sets no user limit and takes no parameter from a later letter:
\* after the records of a mode string whose only limit letter has the minus
\* sign are applied, the channel has no user limit, and each later letter is
\* given the parameter it would have without the limit letter
MinusLimitTakesNothing ==
    [][\A t \in Tasks :
          ModeHandled(t) =>
             LET msg == call[t].msg
                 modes == ModesOf(msg)
                 params == ModeParamsOf(msg)
                 at == LetterPositions(modes)
                 k == u(msg.params[1])
             IN  \A n \in LimitLetters(modes, at) :
                    (LimitLetters(modes, at) = {n} /\ ~SignAt(modes, at[n]))
                      => /\ channels'[k].user_limit = None
                         /\ \A m \in DOMAIN at :
                               (/\ m > n
                                /\ modes[at[m]] \in ParamLetters
                                /\ AskedBefore(modes, at, m) - 1 < Len(params))
                                 => /\ PendingRecords(t)[m].ok
                                    /\ PendingRecords(t)[m].param
                                         = params[AskedBefore(modes, at, m)]]_vars

\* the letters with a mandatory parameter (k o v) and the letters that list
\* a mask when they have none (b e I)
MandatoryLetters == {107, 111, 118}
ListLetters == {98, 101, 73}

\* C33: a mode string yields one record per byte that is no sign, in order,
\* also after an error record: a letter that is no mode yields an
\* unknown-mode error with that byte; k, o or v with no parameter left yields
\* a missing-parameter error; b, e or I with no parameter left yields a list
\* query, which changes no mask; and the letters that take a parameter are
\* given the parameters from left to right
OneRecordPerLetter ==
    \A t \in Tasks :
       ModePending(t) =>
          LET msg == call[t].msg
              modes == ModesOf(msg)
              params == ModeParamsOf(msg)
              at == LetterPositions(modes)
              records == PendingRecords(t)
              chan == channels[u(msg.params[1])]
          IN  /\ Len(records) = Len(at)
              /\ \A n \in DOMAIN at :
                    LET c == modes[at[n]]
                        asked == AskedBefore(modes, at, n)
                        r == records[n]
                    IN  /\ c \notin SimpleLetters \cup ParamLetters
                             => ~r.ok /\ r.type = "UnknownMode" /\ r.param = c
                        /\ (c \in MandatoryLetters /\ asked >= Len(params))
                             => ~r.ok /\ r.type = "MissingModeParam"
                        /\ (c \in ListLetters /\ asked >= Len(params))
                             => /\ r.ok
                                /\ r.type \in {"GetBans", "GetExceptions", "GetInvitations"}
                                /\ apply_mode_change(chan, r, NickOfMembers(chan)).chan = chan
                        /\ (c \in ParamLetters /\ asked < Len(params))
                             => r.ok /\ r.param = params[asked + 1]

\* a MODE message is held whose mode string has a letter that is no mode and
\* then two letters that get the two parameters in order, on a channel that an
\* earlier MODE has given a key
ErrorThenParams ==
    \E t \in Tasks :
       /\ ModePending(t)
       /\ ModesOf(call[t].msg) = <<NoModeLetter, 108, 107>>
       /\ ModeParamsOf(call[t].msg) = <<LimitTwo, KeyK>>
       /\ ~PendingRecords(t)[1].ok
       /\ PendingRecords(t)[3].param = KeyK
       /\ channels[u(ChanX)].key # None

\* the talk policy as it is stated: moderated and a member with voice or
\* operator, or not moderated and messages from outside allowed or a member
MayTalk(chan, id) ==
    \/ /\ chan.moderated
       /\ id \in DOMAIN chan.members
       /\ (chan.members[id].voice \/ chan.members[id].operator)
    \/ /\ ~chan.moderated
       /\ (~chan.no_privmsg_from_outside \/ id \in DOMAIN chan.members)

\* the channel with the voice flag of each member drawn from the given set
WithVoices(chan, voiced) ==
    [chan EXCEPT !.members = [m \in DOMAIN chan.members |->
                                 [chan.members[m] EXCEPT !.voice = (m \in voiced)]]]

\* C34: can_talk is the stated talk policy, for every channel of the state
\* with any voice flags, and a client that may not talk is answered
\* ERR_CANNOTSENDTOCHAN and its message is delivered to no one
TalkPolicy ==
    \A k \in DOMAIN channels, id \in DOMAIN clients :
       /\ \A voiced \in SUBSET (DOMAIN channels[k].members) :
             can_talk(WithVoices(channels[k], voiced), id)
                <=> MayTalk(WithVoices(channels[k], voiced), id)
       /\ \A msg \in ModeTalkMsgs :
             LET o == HandleOutcome(id, msg, TRUE)
             IN  (o.dispatched /\ k = u(Param(msg, 0)) /\ ~can_talk(channels[k], id)) =>
                    /\ CountOf(o.rb, "ERR_CANNOTSENDTOCHAN") = 1
                    /\ CountOf(o.rb, msg.command) = 0
                    /\ \A q \in Queues : o.w.out[q] = <<>>

\* on a moderated channel a member that is no operator has been answered
\* ERR_CANNOTSENDTOCHAN and nothing was delivered to the other clients
ModeratedMemberSilenced ==
    \E k \in DOMAIN channels, id \in DOMAIN clients :
       /\ channels[k].moderated
       /\ id \in DOMAIN channels[k].members
       /\ ~channels[k].members[id].operator
       /\ CountOf(sent[clients[id].queue], "ERR_CANNOTSENDTOCHAN") = 1
       /\ \A j \in (DOMAIN clients) \ {id} : sent[clients[j].queue] = <<>>

\* C35: after rehash(cfg, provider) the domain, the admin contact triple, the
\* MOTD, the password, the default channel modes, the operators, the login
\* timeout, the auth provider and every length limit of the state are those
\* of cfg
RehashTakesEveryField ==
    [][\A cfg \in RehashConfigs, provider \in Providers :
          rehash(cfg, provider) =>
             /\ config'.domain = cfg.domain
             /\ config'.org_name = cfg.org_name
             /\ config'.org_location = cfg.org_location
             /\ config'.org_mail = cfg.org_mail
             /\ config'.motd = (IF cfg.motd_file = "" THEN None ELSE Some(cfg.motd_file))
             /\ config'.password = cfg.password
             /\ config'.default_chan_mode = cfg.default_chan_mode
             /\ config'.opers = cfg.opers
             /\ config'.login_timeout = cfg.login_timeout
             /\ auth_provider' = provider
             /\ config'.awaylen = cfg.awaylen
             /\ config'.channellen = cfg.channellen
             /\ config'.kicklen = cfg.kicklen
             /\ config'.namelen = cfg.namelen
             /\ config'.nicklen = cfg.nicklen
             /\ config'.topiclen = cfg.topiclen
             /\ config'.userlen = cfg.userlen]_vars

\* the first check of a message that fails, in the order tag size, command,
\* capability, parameters, registration
FirstFailing(client, msg) ==
    IF MAX_TAG_DATA_LENGTH < msg.tags_len THEN "tags"
    ELSE IF msg.command \notin Commands THEN "command"
    ELSE IF ~is_capable_of(client.capabilities, msg.command) THEN "capability"
    ELSE IF ~has_enough_params(msg) THEN "arity"
    ELSE IF ~can_issue_command(client, msg.command, Param(msg, 0)) THEN "registration"
    ELSE "none"

\* the error replies of a failing check
RepliesOf(check, client) ==
    CASE check = "tags" -> {"ERR_INPUTTOOLONG"}
      [] check \in {"command", "capability"} ->
           {IF is_registered(client) THEN "ERR_UNKNOWNCOMMAND" ELSE "ERR_NOTREGISTERED"}
      [] check = "arity" ->
           {"ERR_NONICKNAMEGIVEN", "ERR_NORECIPIENT", "ERR_NOTEXTTOSEND", "ERR_NEEDMOREPARAMS"}
      [] check = "registration" ->
           {IF is_registered(client) THEN "ERR_ALREADYREGISTRED" ELSE "ERR_NOTREGISTERED"}
      [] OTHER -> {}

\* C36: handle_message checks tag size, command, capability, parameters and
\* registration in this order; the first check that fails gives the sender
\* exactly one error reply, that of this check, the handler is not dispatched,
\* and clients, nicks, channels and the registration state of the sender are
\* as before
ChecksInOrder ==
    \A id \in DOMAIN clients, msg \in OrderMsgs :
       LET o == HandleOutcome(id, msg, TRUE)
           check == FirstFailing(clients[id], msg)
           errors == {i \in DOMAIN o.rb : o.rb[i].command # "BATCH"}
       IN  IF check = "none" THEN o.dispatched
           ELSE /\ ~o.dispatched
                /\ Cardinality(errors) = 1
                /\ \A i \in errors : o.rb[i].command \in RepliesOf(check, clients[id])
                /\ o.w.clients = clients
                /\ o.w.nicks = nicks
                /\ o.w.channels = channels
                /\ \A q \in Queues : o.w.out[q] = <<>>

\* a registered client has sent USER without parameters, which fails both the
\* parameter count and the registration gate, and was answered
\* ERR_NEEDMOREPARAMS alone
RegisteredUserWithoutParams ==
    \E id \in DOMAIN clients :
       /\ is_registered(clients[id])
       /\ Len(sent[clients[id].queue]) = 1
       /\ sent[clients[id].queue][1].command = "ERR_NEEDMOREPARAMS"

LateTimerSparesOthers ==
    [][\A t \in Tasks :
          (pc[t] = "late" /\ pc'[t] = "idle") =>
             \A id \in DOMAIN clients :
                clients[id].queue # call[t].queue
                   => (id \in DOMAIN clients' /\ clients'[id] = clients[id])]_vars

====
